---- MODULE Spec2Model ----
(***************************************************************************)
(* Verification model of grantha-explorer: the multi-part loader           *)
(* (lib/data.ts loadGrantha), the reference resolver (lib/references.ts),  *)
(* and the JSON <-> Markdown converter with content-hash validation.       *)
(***************************************************************************)
EXTENDS Integers, Sequences, FiniteSets, TLC

VARIABLES
    \* ---- lib/data.ts : loadGrantha -------------------------------------
    server,         \* what the static host serves for the requested grantha
    granthaCache,   \* module-level Map<string, Grantha>
    loadPc,         \* position of the one loadGrantha call in flight
    loadId,         \* its granthaId argument
    fetchState,     \* per manifest index: state of that part's fetch promise
    allPartContents,\* result array of Promise.all, by slot
    arrival,        \* manifest indices of the part fetches, in fulfilment order
    loadResult,     \* value the call resolved with (NoGrantha until then)
    \* ---- lib/references.ts ---------------------------------------------
    text,           \* argument of parseReferences
    abbreviationMap,\* argument of parseReferences
    lastIndex,      \* referenceRegex.lastIndex (module-level /g regex)
    references,     \* local array built by parseReferences
    refPc,          \* position of the parseReferences / preview caller
    previewRef,     \* the reference captured by the preview in flight
    previewResult,  \* value getPassagePreview resolved with
    threw,          \* TRUE once parseReferences or getPassagePreview raised
    calls,          \* log of parseReferences calls: the text and the list returned
    \* ---- lib/data.ts : getPassageHierarchy -------------------------------
    data,           \* the grantha handed to getPassageHierarchy / the validator
    hierarchy,      \* the PassageHierarchy returned
    hierPc,         \* position of the getPassageHierarchy caller
    \* ---- scripts/validate-data.ts ---------------------------------------
    files,          \* the .json files of the data directory, in readdir order
    fileIdx,        \* loop position: number of files taken up so far
    allValid,       \* the script's allValid flag
    errors,         \* what console.error reported: file index, kind, ref
    expectedDepth,  \* getStructureDepth of the file validated last
    valPc,          \* "running", "done", or "crashed" on an uncaught exception
    \* ---- hooks/useGranthaLoader.ts : loadPart ----------------------------
    queryData,      \* the Grantha object under the query key ["grantha", id]
    heap,           \* the Commentary objects, by identity
    handedOut,      \* the Grantha objects handed out so far, with their contents then
    isLoadingPart,  \* the hook's isLoadingPart state
    inFlight,       \* part ids of the loadPart calls awaiting loadGranthaPart
    nCalls,         \* number of loadPart calls made
    loaderVersion,  \* the useGranthaLoader built: 1 filters duplicates on merge, 2 does not
    \* ---- hooks/useVerseHash.ts and app/page.tsx (Home) -------------------
    locationHash,   \* window.location.hash
    historyLength,  \* window.history.length
    selectedCommentaries, \* localStorage item "selectedCommentaries"
    state,          \* the hook's state: granthaId, verseRef, commentaries
    granthas,       \* Home's granthas state (ids of the available granthas)
    granthaDataMap, \* Home's granthaDataMap state (ids of the loaded granthas)
    currentGrantha, \* Home's currentGrantha state (its id)
    loading,        \* Home's loading state
    homePc,         \* position of Home's mount and of its loadGranthas effect
    loadsInFlight,  \* loadGrantha calls awaited by Home's effect and selector
    pendingHashChanges, \* hashchange events dispatched and not yet handled
    openedHash,     \* the hash of the URL the app was opened with
    lastHandled,    \* what the initializer / handleHashChange saw and left last
    navigations,    \* number of user navigations so far
    lastNavigation, \* the user's last navigation: its kind and its grantha
    \* ---- tools/grantha_converter ----------------------------------------
    doc,            \* the JSON document given to json2md
    opts,           \* the --scripts / --commentaries selection
    markup,         \* the markdown file, a sequence of lines
    convPc,         \* position of the export / edit / import workflow
    edits,          \* the manual edits made to the markdown file, in order
    parsed,         \* result of parsing the markdown file
    jsonOut,        \* the JSON artifact written by md2json (NoDocument if none)
    exitCode        \* exit code of the md2json run

asmVars == <<server, granthaCache, loadPc, loadId, fetchState,
             allPartContents, arrival, loadResult>>
refVars == <<text, abbreviationMap, lastIndex, references, refPc,
             previewRef, previewResult, threw, calls>>
convVars == <<doc, opts, markup, convPc, edits, parsed, jsonOut, exitCode>>
hierVars == <<data, hierarchy, hierPc>>
valVars == <<files, fileIdx, allValid, errors, expectedDepth, valPc>>
uiVars == <<queryData, heap, handedOut, isLoadingPart, inFlight, nCalls,
            loaderVersion>>
navVars == <<locationHash, historyLength, selectedCommentaries, state, granthas,
             granthaDataMap, currentGrantha, loading, homePc, loadsInFlight,
             pendingHashChanges, openedHash, lastHandled, navigations,
             lastNavigation>>
vars == <<asmVars, refVars, convVars, hierVars, valVars, uiVars, navVars>>

(***************************************************************************)
(* Generic sequence helpers                                                *)
(***************************************************************************)
RECURSIVE Flatten(_)
Flatten(ss) == IF ss = <<>> THEN <<>> ELSE Head(ss) \o Flatten(Tail(ss))

RECURSIVE NoRepeat(_)
NoRepeat(s) ==
    IF s = <<>> THEN TRUE
    ELSE (\A i \in 2..Len(s) : s[i] # Head(s)) /\ NoRepeat(Tail(s))

SeqsUpTo(S, n) == UNION { [1..k -> S] : k \in 0..n }

\* /^\d+$/.test(seg)
Digits == {"0", "1", "2", "3", "4", "5", "6", "7", "8", "9"}
IsNumeric(seg) == seg # << >> /\ \A i \in 1..Len(seg) : seg[i] \in Digits

(***************************************************************************)
(* Bounds                                                                  *)
(***************************************************************************)
MaxParts == 3
MaxFrags == 2
MaxEdits == 1
MaxCalls == 3
MaxTreeDepth == 4
MaxPassages == 3
MaxFiles == 3
MaxLoadCalls == 3
MaxNavigations == 2
MaxDepth == 3

(***************************************************************************)
(* Data served by the static host                                          *)
(***************************************************************************)
NoPartNum == 0          \* part_num?: number  -- field absent
NoGrantha == [kind |-> "none"]

\* JS strings that the resolver takes apart are sequences of UTF-16 code
\* units; a non-ASCII unit is written by its code point ("u091B")
ChandogyaId ==
    <<"c", "h", "a", "n", "d", "o", "g", "y", "a", "-", "u", "p", "a",
    "n", "i", "s", "h", "a", "d">>
TaittiriyaId ==
    <<"t", "a", "i", "t", "t", "i", "r", "i", "y", "a", "-", "u", "p",
    "a", "n", "i", "s", "h", "a", "d">>
\* the abbreviation of chandogya-upanishad
AbbrChandogya ==
    <<"u091B", "u093E", "u0902", ".", "u0909", ".">>
\* the abbreviation of taittiriya-upanishad
AbbrTaittiriya ==
    <<"u0924", "u0948", ".", "u0909", ".">>
\* the structure alias of chapter 2
AliasAnandavalli ==
    <<"u0906", "u0928", "u0928", "u094D", "u0926", "u0935", "u0932",
    "u094D", "u0932", "u0940">>
\* [<abbr> 1.1.1](ref:<abbr>/1.1.1) with the chandogya abbreviation
TaggedCitation ==
    <<"[", "u091B", "u093E", "u0902", ".", "u0909", ".", " ", "1", ".",
    "1", ".", "1", "]", "(", "r", "e", "f", ":", "u091B", "u093E",
    "u0902", ".", "u0909", ".", "/", "1", ".", "1", ".", "1", ")">>
\* (<abbr> 1.1.1) with the chandogya abbreviation, no ref: link
UntaggedCitation ==
    <<"(", "u091B", "u093E", "u0902", ".", "u0909", ".", " ", "1", ".",
    "1", ".", "1", ")">>
UnknownCitation ==
    <<"[", "X", "Y", "Z", " ", "2", ".", "3", "]", "(", "r", "e", "f",
    ":", "X", "Y", "Z", "/", "2", "-", "3", ")">>
\* [x](ref:<abbr>/1-1) with the taittiriya abbreviation
HyphenCitation ==
    <<"[", "x", "]", "(", "r", "e", "f", ":", "u0924", "u0948", ".",
    "u0909", ".", "/", "1", "-", "1", ")">>
\* [x](ref:<abbr>/2/<alias>): a level-1 alias in second position
AliasCitation ==
    <<"[", "x", "]", "(", "r", "e", "f", ":", "u0924", "u0948", ".",
    "u0909", ".", "/", "2", "/", "u0906", "u0928", "u0928", "u094D",
    "u0926", "u0935", "u0932", "u094D", "u0932", "u0940", ")">>
EmptyPayload ==
    <<"[", "x", "]", "(", "r", "e", "f", ":", ")">>
Unterminated ==
    <<"[", "x", "]", "(", "r", "e", "f", ":", "X", "Y", "Z", "/", "1">>
NoSlash ==
    <<"[", "x", "]", "(", "r", "e", "f", ":", "X", "Y", "Z", ")">>
EmptyAbbr ==
    <<"[", "x", "]", "(", "r", "e", "f", ":", "/", "1", ".", "1", ")">>
PlainText ==
    <<" ", "a", "]">>

GranthaIds == {ChandogyaId, TaittiriyaId}
PartFiles == {"part1.json", "part2.json", "part3.json"}

Ref(a, b) == <<a, ".", b>>
Passage(r) == [ref |-> r, part_num |-> NoPartNum]
CommentaryPassage(r) == [ref |-> r, part_num |-> NoPartNum]
Commentary(id, ps) == [commentary_id |-> id, passages |-> ps]

\* GranthaPartContent of each part file
PartFile(f) ==
    CASE f = "part1.json" ->
           [prefatory_material |-> << Passage(Ref("0", "0")) >>,
            passages |-> << Passage(Ref("1", "1")), Passage(Ref("1", "2")) >>,
            concluding_material |-> << >>,
            commentaries |-> << Commentary("c1", << CommentaryPassage(Ref("1", "1")) >>) >>]
      [] f = "part2.json" ->
           [prefatory_material |-> << >>,
            passages |-> << Passage(Ref("2", "1")) >>,
            concluding_material |-> << >>,
            commentaries |-> << Commentary("c1", << CommentaryPassage(Ref("2", "1")) >>),
                                Commentary("c2", << CommentaryPassage(Ref("2", "1")) >>) >>]
      [] f = "part3.json" ->
           [prefatory_material |-> << Passage(Ref("3", "0")) >>,
            passages |-> << Passage(Ref("3", "1")) >>,
            concluding_material |-> << Passage(Ref("3", "2")) >>,
            commentaries |-> << Commentary("c2", << CommentaryPassage(Ref("3", "1")) >>) >>]

\* a part that failed to load contributes nothing (only reachable in mutants)
EmptyPart ==
    [prefatory_material |-> << >>, passages |-> << >>,
     concluding_material |-> << >>, commentaries |-> << >>]

\* metadata.json "parts": ordered lists of distinct part files
Manifests == { m \in SeqsUpTo(PartFiles, MaxParts) : m # <<>> /\ NoRepeat(m) }

\* metadata.json "commentaries" (optional); entries may carry stale passages
MetaCommentaries ==
    { << >>,
      << Commentary("c1", << CommentaryPassage(Ref("9", "9")) >>) >>,
      << Commentary("c2", << >>), Commentary("c1", << >>) >> }

\* the single-file grantha <id>.json
SingleFile ==
    [kind |-> "grantha", parts |-> << >>,
     prefatory_material |-> << >>,
     passages |-> << Passage(Ref("1", "1")), Passage(Ref("1", "2")) >>,
     concluding_material |-> << >>,
     commentaries |-> << Commentary("c1", << CommentaryPassage(Ref("1", "1")) >>) >>]

Servers ==
    { [kind |-> "multi", parts |-> m, commentaries |-> c] :
          m \in Manifests, c \in MetaCommentaries }
    \cup { [kind |-> "multi", parts |-> << >>, commentaries |-> << >>],
           [kind |-> "single", parts |-> << >>, commentaries |-> << >>],
           [kind |-> "error", parts |-> << >>, commentaries |-> << >>] }

(***************************************************************************)
(* loadGrantha: merge of the part contents                                 *)
(***************************************************************************)
\* p => ({...p, part_num}) over one passage list
TagPartNumUntagged(ps, part_num) == ps
TagPartNum(ps, part_num) ==
    [i \in 1..Len(ps) |-> [ps[i] EXCEPT !.part_num = part_num]]

\* index of the first entry with that commentary_id, 0 if none (Array.find)
FindCommentary(cs, id) ==
    IF \E i \in 1..Len(cs) : cs[i].commentary_id = id
    THEN CHOOSE i \in 1..Len(cs) :
            /\ cs[i].commentary_id = id
            /\ \A j \in 1..(i - 1) : cs[j].commentary_id # id
    ELSE 0

\* body of the partContent.commentaries.forEach callback
MergeCommentaryOverwrite(cs, commentaryPart) ==
    LET i == FindCommentary(cs, commentaryPart.commentary_id)
    IN  IF i # 0
        THEN [cs EXCEPT ![i].passages = commentaryPart.passages]
        ELSE Append(cs, commentaryPart)
MergeCommentary(cs, commentaryPart) ==
    LET i == FindCommentary(cs, commentaryPart.commentary_id)
    IN  IF i # 0
        THEN [cs EXCEPT ![i].passages = @ \o commentaryPart.passages]
        ELSE Append(cs, commentaryPart)

RECURSIVE MergeCommentaries(_, _)
MergeCommentaries(cs, partCs) ==
    IF partCs = <<>> THEN cs
    ELSE MergeCommentaries(MergeCommentary(cs, Head(partCs)), Tail(partCs))

\* one iteration of allPartContents.forEach((partContent, index) => ...)
MergePart(merged, partContent, index) ==
    LET part_num == index   \* JS index + 1; TLA+ sequences are 1-based
    IN  [merged EXCEPT
           !.prefatory_material = @ \o TagPartNum(partContent.prefatory_material, part_num),
           !.passages = @ \o TagPartNum(partContent.passages, part_num),
           !.concluding_material = @ \o TagPartNum(partContent.concluding_material, part_num),
           !.commentaries = MergeCommentaries(@, partContent.commentaries)]

RECURSIVE MergeParts(_, _, _)
MergeParts(merged, contents, index) ==
    IF index > Len(contents) THEN merged
    ELSE MergeParts(MergePart(merged, contents[index], index), contents, index + 1)

\* the mergedGrantha literal: metadata spread, empty content arrays,
\* metadata commentaries deep-copied with passages reset to []
InitialMerged(meta) ==
    [kind |-> "grantha", parts |-> meta.parts,
     prefatory_material |-> << >>, passages |-> << >>,
     concluding_material |-> << >>,
     commentaries |-> [i \in 1..Len(meta.commentaries) |->
                          [meta.commentaries[i] EXCEPT !.passages = << >>]]]

\* value of slot i of the Promise.all result
SlotContent(slots, i) ==
    IF slots[i] = "none" THEN EmptyPart ELSE PartFile(slots[i])

AssembleGrantha(meta, slots) ==
    MergeParts(InitialMerged(meta),
               [i \in 1..Len(meta.parts) |-> SlotContent(slots, i)], 1)

\* Promise.all stores each fulfilled value at the index of its promise
PromiseAllSlotArrival(index, arrived) == Len(arrived) + 1
PromiseAllSlot(index, arrived) == index

\* Promise.all rejects as soon as one promise rejects; loadGrantha rethrows
OnPartFailureIgnore(pc) == pc
OnPartFailure(pc) == IF pc = "awaitParts" THEN "rejected" ELSE pc

(***************************************************************************)
(* loadGrantha: the steps of one call                                      *)
(***************************************************************************)
NoFetches == << >>

\* entry: cache hit returns the cached object, otherwise fetch metadata.json
LoadStart(g) ==
    /\ loadPc = "idle"
    /\ loadId' = g
    /\ IF g \in DOMAIN granthaCache
       THEN /\ loadPc' = "done"
            /\ loadResult' = granthaCache[g]
       ELSE /\ loadPc' = "awaitMetadata"
            /\ loadResult' = NoGrantha
    /\ fetchState' = NoFetches
    /\ allPartContents' = NoFetches
    /\ arrival' = << >>
    /\ UNCHANGED <<server, granthaCache>>

\* metadata.json answered 200: start every part fetch, or throw on no parts
MetadataOk ==
    /\ loadPc = "awaitMetadata"
    /\ server.kind = "multi"
    /\ IF Len(server.parts) = 0
       THEN /\ loadPc' = "rejected"
            /\ UNCHANGED <<fetchState, allPartContents>>
       ELSE /\ loadPc' = "awaitParts"
            /\ fetchState' = [i \in 1..Len(server.parts) |-> "pending"]
            /\ allPartContents' = [i \in 1..Len(server.parts) |-> "none"]
    /\ UNCHANGED <<server, granthaCache, loadId, arrival, loadResult>>

\* metadata.json answered 404: fetch <id>.json
MetadataNotFound ==
    /\ loadPc = "awaitMetadata"
    /\ server.kind = "single"
    /\ loadPc' = "awaitSingle"
    /\ UNCHANGED <<server, granthaCache, loadId, fetchState, allPartContents,
                   arrival, loadResult>>

\* metadata.json answered another status, or the fetch itself rejected
MetadataError ==
    /\ loadPc = "awaitMetadata"
    /\ loadPc' = "rejected"
    /\ UNCHANGED <<server, granthaCache, loadId, fetchState, allPartContents,
                   arrival, loadResult>>

SingleFileOk ==
    /\ loadPc = "awaitSingle"
    /\ granthaCache' = [x \in DOMAIN granthaCache \cup {loadId} |->
                           IF x = loadId THEN SingleFile ELSE granthaCache[x]]
    /\ loadResult' = SingleFile
    /\ loadPc' = "done"
    /\ UNCHANGED <<server, loadId, fetchState, allPartContents, arrival>>

SingleFileError ==
    /\ loadPc = "awaitSingle"
    /\ loadPc' = "rejected"
    /\ UNCHANGED <<server, granthaCache, loadId, fetchState, allPartContents,
                   arrival, loadResult>>

\* the fetch of part i fulfils (res.ok and res.json() parsed)
PartFetchOk(i) ==
    /\ i \in DOMAIN fetchState
    /\ fetchState[i] = "pending"
    /\ fetchState' = [fetchState EXCEPT ![i] = "ok"]
    /\ allPartContents' =
          [allPartContents EXCEPT ![PromiseAllSlot(i, arrival)] = server.parts[i]]
    /\ arrival' = Append(arrival, i)
    /\ UNCHANGED <<server, granthaCache, loadPc, loadId, loadResult>>

\* the fetch of part i rejects, answers !res.ok, or res.json() throws
PartFetchFail(i) ==
    /\ i \in DOMAIN fetchState
    /\ fetchState[i] = "pending"
    /\ fetchState' = [fetchState EXCEPT ![i] = "failed"]
    /\ loadPc' = OnPartFailure(loadPc)
    /\ UNCHANGED <<server, granthaCache, loadId, allPartContents,
                   arrival, loadResult>>

\* Promise.all fulfilled: merge, cache and return
Assemble ==
    /\ loadPc = "awaitParts"
    /\ \A i \in DOMAIN fetchState : fetchState[i] # "pending"
    /\ LET mergedGrantha == AssembleGrantha(server, allPartContents)
       IN  /\ granthaCache' = [x \in DOMAIN granthaCache \cup {loadId} |->
                                  IF x = loadId THEN mergedGrantha ELSE granthaCache[x]]
           /\ loadResult' = mergedGrantha
    /\ loadPc' = "done"
    /\ UNCHANGED <<server, loadId, fetchState, allPartContents, arrival>>

\* the caller takes the outcome; the next call may start
LoadReturn ==
    /\ loadPc \in {"done", "rejected"}
    /\ \A i \in DOMAIN fetchState : fetchState[i] # "pending"
    /\ loadPc' = "idle"
    /\ loadResult' = NoGrantha
    /\ fetchState' = NoFetches
    /\ allPartContents' = NoFetches
    /\ arrival' = << >>
    /\ UNCHANGED <<server, granthaCache, loadId>>

LoaderStep ==
    \/ MetadataOk
    \/ MetadataNotFound
    \/ MetadataError
    \/ SingleFileOk
    \/ SingleFileError
    \/ \E i \in 1..MaxParts : PartFetchOk(i)
    \/ \E i \in 1..MaxParts : PartFetchFail(i)
    \/ Assemble

(***************************************************************************)
(* lib/data.ts: createAbbreviationMap, getPassageByRef                     *)
(***************************************************************************)
\* granthas-meta.json: abbreviations.devanagari of each grantha
GranthasMeta ==
    [g \in GranthaIds |->
        IF g = ChandogyaId THEN << AbbrChandogya >> ELSE << AbbrTaittiriya >>]

\* map[abbr] = granthaId for every abbreviation of every grantha
createAbbreviationMap(meta) ==
    LET abbrs == UNION { { meta[g][i] : i \in 1..Len(meta[g]) } : g \in DOMAIN meta }
    IN  [a \in abbrs |->
            CHOOSE g \in DOMAIN meta : \E i \in 1..Len(meta[g]) : meta[g][i] = a]

\* useState({}) before getGranthasMeta() resolves
EmptyAbbreviationMap == << >>

getAllPassagesForNavigation(grantha) ==
    grantha.prefatory_material \o grantha.passages \o grantha.concluding_material

\* .find((p) => p.ref === ref) : index of the first hit, 0 for undefined
getPassageByRef(grantha, ref) ==
    LET all == getAllPassagesForNavigation(grantha)
    IN  IF \E i \in 1..Len(all) : all[i].ref = ref
        THEN CHOOSE i \in 1..Len(all) :
                all[i].ref = ref /\ \A j \in 1..(i - 1) : all[j].ref # ref
        ELSE 0

(***************************************************************************)
(* lib/references.ts: referenceRegex and parseReferences                   *)
(***************************************************************************)
\* smallest index >= from holding character c, 0 if there is none
IndexFrom(s, c, from) ==
    IF \E i \in from..Len(s) : s[i] = c
    THEN CHOOSE i \in from..Len(s) : s[i] = c /\ \A j \in from..(i - 1) : s[j] # c
    ELSE 0

LinkOpen == <<"]", "(", "r", "e", "f", ":">>

\* /\[([^\]]+)\]\(ref:([^\)]+)\)/ anchored at position s (1-based)
MatchAt(s, at) ==
    LET j == IndexFrom(s, "]", at + 1)
        k == IndexFrom(s, ")", j + 6)
    IN  IF /\ at <= Len(s)
           /\ s[at] = "["
           /\ j >= at + 2
           /\ j + 5 <= Len(s)
           /\ SubSeq(s, j, j + 5) = LinkOpen
           /\ k >= j + 7
        THEN [found |-> TRUE,
              fullMatch |-> SubSeq(s, at, k),
              displayText |-> SubSeq(s, at + 1, j - 1),
              rawRef |-> SubSeq(s, j + 6, k - 1),
              end |-> k]
        ELSE [found |-> FALSE]

\* referenceRegex.exec(text) of a /g regex whose lastIndex is li (0-based):
\* the leftmost match starting at or after li; on failure lastIndex := 0
RegexExecNoReset(s, li) ==
    LET starts == { at \in (li + 1)..Len(s) : MatchAt(s, at).found }
    IN  IF starts = {} THEN [found |-> FALSE, end |-> li]
        ELSE MatchAt(s, CHOOSE at \in starts : \A b \in starts : at <= b)
RegexExec(s, li) ==
    LET starts == { at \in (li + 1)..Len(s) : MatchAt(s, at).found }
    IN  IF starts = {} THEN [found |-> FALSE, end |-> 0]
        ELSE MatchAt(s, CHOOSE at \in starts : \A b \in starts : at <= b)

\* String.prototype.split(sep) for a one-character separator
RECURSIVE Split(_, _)
Split(s, sep) ==
    LET i == IndexFrom(s, sep, 1)
    IN  IF i = 0 THEN << s >>
        ELSE << SubSeq(s, 1, i - 1) >> \o Split(SubSeq(s, i + 1, Len(s)), sep)

\* Array.prototype.join(sep)
RECURSIVE Join(_, _)
Join(parts, sep) ==
    IF parts = <<>> THEN <<>>
    ELSE IF Len(parts) = 1 THEN parts[1]
    ELSE parts[1] \o << sep >> \o Join(Tail(parts), sep)

\* abbreviationMap[granthaAbbr] || granthaAbbr
ResolveGranthaIdVerbatim(map, granthaAbbr) == granthaAbbr
ResolveGranthaId(map, granthaAbbr) ==
    IF granthaAbbr \in DOMAIN map /\ map[granthaAbbr] # <<>>
    THEN map[granthaAbbr]
    ELSE granthaAbbr

\* path.replace(/\/|\-/g, '.')
NormalizePath(path) ==
    [i \in 1..Len(path) |-> IF path[i] \in {"/", "-"} THEN "." ELSE path[i]]

NoReference ==
    [fullMatch |-> << >>, displayText |-> << >>, rawRef |-> << >>,
     granthaId |-> << >>, path |-> << >>]

\* the Reference pushed for one match
MakeReference(m, map) ==
    LET parts == Split(m.rawRef, "/")
        granthaAbbr == parts[1]
        path == Join(Tail(parts), "/")
    IN  [fullMatch |-> m.fullMatch,
         displayText |-> m.displayText,
         rawRef |-> m.rawRef,
         granthaId |-> ResolveGranthaId(map, granthaAbbr),
         path |-> NormalizePath(path)]

\* the while ((match = referenceRegex.exec(text)) !== null) loop
RECURSIVE ParseLoop(_, _, _, _)
ParseLoop(s, map, li, refs) ==
    LET m == RegexExec(s, li)
    IN  IF ~m.found THEN [references |-> refs, lastIndex |-> m.end]
        ELSE ParseLoop(s, map, m.end, Append(refs, MakeReference(m, map)))

parseReferences(s, map, li) == ParseLoop(s, map, li, << >>)

\* availableGranthaIds.includes(granthaId)
AvailableGranthaIds == GranthaIds
isReferenceInLibrary(granthaId) == granthaId \in AvailableGranthaIds

(***************************************************************************)
(* CommentaryPanel / ReferenceLink: the callers of the resolver            *)
(***************************************************************************)
\* pieces of commentary text: well-formed links, an untagged citation,
\* malformed links and plain text
Fragments ==
    { TaggedCitation, UntaggedCitation, UnknownCitation, HyphenCitation,
      AliasCitation, EmptyPayload, Unterminated, NoSlash, EmptyAbbr, PlainText }

Texts == { Flatten(fs) : fs \in SeqsUpTo(Fragments, MaxFrags) }

\* getGranthasMeta().then(meta => setAbbreviationMap(createAbbreviationMap(meta)))
\* the state change re-renders the panel, which parses the text again
MetaLoaded ==
    /\ abbreviationMap = EmptyAbbreviationMap
    /\ abbreviationMap' = createAbbreviationMap(GranthasMeta)
    /\ IF refPc = "idle"
       THEN UNCHANGED <<references, lastIndex>>
       ELSE LET r == parseReferences(text, abbreviationMap', lastIndex)
            IN  /\ references' = r.references
                /\ lastIndex' = r.lastIndex
    /\ UNCHANGED <<text, refPc, previewRef, previewResult, threw, calls>>

\* renderCommentaryWithReferences: parseReferences(text, abbreviationMap)
CallParseReferences ==
    /\ refPc \in {"idle", "parsed", "previewDone"}
    /\ LET r == parseReferences(text, abbreviationMap, lastIndex)
       IN  /\ references' = r.references
           /\ lastIndex' = r.lastIndex
    /\ refPc' = "parsed"
    /\ previewRef' = NoReference
    /\ previewResult' = "none"
    /\ UNCHANGED <<text, abbreviationMap, threw, calls>>

\* texts of the commentaries one panel renders, each through parseReferences
PanelTexts ==
    { TaggedCitation, TaggedCitation \o HyphenCitation, Unterminated,
      PlainText \o UnknownCitation \o PlainText, PlainText }

\* one more commentary rendered: parseReferences(t, abbreviationMap) on the
\* shared module-level regex
RenderCommentary(t) ==
    /\ Len(calls) < MaxCalls
    /\ LET r == parseReferences(t, abbreviationMap, lastIndex)
       IN  /\ references' = r.references
           /\ lastIndex' = r.lastIndex
           /\ calls' = Append(calls, [text |-> t, references |-> r.references])
    /\ text' = t
    /\ refPc' = "parsed"
    /\ UNCHANGED <<abbreviationMap, previewRef, previewResult, threw>>

\* getPassagePreview entry: the library test, then await loadGrantha
PreviewStart(i) ==
    /\ refPc = "parsed"
    /\ i \in 1..Len(references)
    /\ previewRef' = references[i]
    /\ IF ~isReferenceInLibrary(references[i].granthaId)
       THEN /\ previewResult' = "Reference not available in this library."
            /\ refPc' = "previewDone"
            /\ UNCHANGED asmVars
       ELSE /\ LoadStart(references[i].granthaId)
            /\ refPc' = "awaitLoad"
            /\ UNCHANGED previewResult
    /\ UNCHANGED <<text, abbreviationMap, lastIndex, references, threw, calls>>

\* loadGrantha resolved: look the passage up
PreviewLoaded ==
    /\ refPc = "awaitLoad"
    /\ loadPc = "done"
    /\ previewResult' =
          IF getPassageByRef(loadResult, previewRef.path) # 0
          THEN "passage.content.sanskrit.devanagari"
          ELSE "Passage not found."
    /\ refPc' = "previewDone"
    /\ UNCHANGED <<text, abbreviationMap, lastIndex, references, previewRef, threw, calls>>
    /\ UNCHANGED asmVars

\* what a rejected loadGrantha turns into: the catch block returns a string
PreviewOnRejectUncaught == [result |-> "none", threw |-> TRUE]
PreviewOnReject == [result |-> "Error fetching preview.", threw |-> FALSE]

PreviewLoadFailed ==
    /\ refPc = "awaitLoad"
    /\ loadPc = "rejected"
    /\ previewResult' = PreviewOnReject.result
    /\ threw' = PreviewOnReject.threw
    /\ refPc' = "previewDone"
    /\ UNCHANGED <<text, abbreviationMap, lastIndex, references, previewRef, calls>>
    /\ UNCHANGED asmVars

(***************************************************************************)
(* tools/grantha_converter/hasher.py: content hashing                      *)
(***************************************************************************)
Whitespace == {" ", "\t", "\n", "\r"}
\* danda, double danda and common ASCII punctuation
Punctuation == {"u0964", "u0965", ",", ".", ";", ":", "!", "?"}
\* ZWNJ, ZWJ, zero-width space
ZeroWidth == {"u200C", "u200D", "u200B"}

RECURSIVE Strip(_, _)
Strip(s, ignored) ==
    IF s = << >> THEN << >>
    ELSE (IF Head(s) \in ignored THEN << >> ELSE << Head(s) >>) \o Strip(Tail(s), ignored)

\* normalization before hashing: drop whitespace, punctuation, zero-width marks
NormalizeKeepNewlines(s) == Strip(s, ({" ", "\t"} \cup Punctuation) \cup ZeroWidth)
Normalize(s) == Strip(s, (Whitespace \cup Punctuation) \cup ZeroWidth)

\* the digest, taken as collision-free: equal exactly when the normalized
\* texts are equal
Hash(s) == << "sha256" >> \o Normalize(s)

(***************************************************************************)
(* The JSON document model                                                 *)
(***************************************************************************)
ScriptOrder == << "devanagari", "roman" >>
NoDocument == [kind |-> "none"]

ScriptContent(content, script) ==
    IF script = "devanagari" THEN content.devanagari ELSE content.roman

\* lexicographic order on refs, segment by segment, numerically
RECURSIVE RefLess(_, _)
RefLess(a, b) ==
    IF b = << >> THEN FALSE
    ELSE IF a = << >> THEN TRUE
    ELSE IF Head(a) # Head(b) THEN Head(a) < Head(b)
    ELSE RefLess(Tail(a), Tail(b))

\* stable insertion sort of passages by ref
RECURSIVE InsertByRef(_, _)
InsertByRef(sorted, p) ==
    IF sorted = << >> THEN << p >>
    ELSE IF RefLess(p.ref, Head(sorted).ref) THEN << p >> \o sorted
    ELSE << Head(sorted) >> \o InsertByRef(Tail(sorted), p)

RECURSIVE SortByRef(_)
SortByRef(ps) ==
    IF ps = << >> THEN << >>
    ELSE InsertByRef(SortByRef(SubSeq(ps, 1, Len(ps) - 1)), ps[Len(ps)])

\* the text of one passage: its contents in script order, then its label
PassageText(p) ==
    Flatten([i \in 1..Len(ScriptOrder) |-> ScriptContent(p.content, ScriptOrder[i])])
    \o p.label

PassagesText(ps) == Flatten([i \in 1..Len(ps) |-> PassageText(ps[i])])

\* hashDocument: prefatory, main in ref order, concluding, then the
\* commentaries in declaration order
hashDocument(d) ==
    Hash(PassagesText(d.prefatory)
         \o PassagesText(SortByRef(d.main))
         \o PassagesText(d.concluding)
         \o Flatten([c \in 1..Len(d.commentaries) |->
                        PassagesText(d.commentaries[c].passages)]))

\* the commentary ids selected by the option: "all", "none" or a set of ids
SelectedCommentaries(d, selection) ==
    IF selection = "all"
    THEN { d.commentaries[c].id : c \in 1..Len(d.commentaries) }
    ELSE IF selection = "none" THEN { }
    ELSE { selection }

RECURSIVE Filter(_, _)
Filter(cs, ids) ==
    IF cs = << >> THEN << >>
    ELSE (IF Head(cs).id \in ids THEN << Head(cs) >> ELSE << >>) \o Filter(Tail(cs), ids)

RestrictPassages(ps, scripts) ==
    [i \in 1..Len(ps) |->
        [ps[i] EXCEPT !.content =
            [devanagari |-> IF "devanagari" \in scripts THEN @.devanagari ELSE << >>,
             roman |-> IF "roman" \in scripts THEN @.roman ELSE << >>]]]

\* the document restricted to the content included under the options
Restrict(d, o) ==
    LET cs == Filter(d.commentaries, SelectedCommentaries(d, o.commentaries))
    IN  [d EXCEPT
           !.prefatory = RestrictPassages(@, o.scripts),
           !.main = RestrictPassages(@, o.scripts),
           !.concluding = RestrictPassages(@, o.scripts),
           !.commentaries = [c \in 1..Len(cs) |->
                                [cs[c] EXCEPT !.passages = RestrictPassages(@, o.scripts)]]]

(***************************************************************************)
(* tools/grantha_converter/json_to_md.py: serialization                    *)
(***************************************************************************)
TextLines(t) ==
    LET ls == Split(t, "\n")
    IN  [i \in 1..Len(ls) |-> [kind |-> "text", chars |-> ls[i]]]

\* the fenced per-script blocks of one content, in script order
ScriptBlocks(content, scripts) ==
    Flatten([i \in 1..Len(ScriptOrder) |->
        LET script == ScriptOrder[i]
        IN  IF script \in scripts /\ ScriptContent(content, script) # << >>
            THEN << [kind |-> "open", script |-> script] >>
                 \o TextLines(ScriptContent(content, script))
                 \o << [kind |-> "close", script |-> script] >>
            ELSE << >>])

\* the commentary sections that follow the passage with this ref
CommentaryLinesAll(d, o, ref) ==
    Flatten([c \in 1..Len(d.commentaries) |->
        Flatten([k \in 1..Len(d.commentaries[c].passages) |->
            LET cp == d.commentaries[c].passages[k]
            IN  IF cp.ref = ref
                THEN << [kind |-> "commentary", ref |-> ref, id |-> d.commentaries[c].id] >>
                     \o ScriptBlocks(cp.content, o.scripts)
                ELSE << >>])])
CommentaryLines(d, o, ref) ==
    Flatten([c \in 1..Len(d.commentaries) |->
        IF d.commentaries[c].id \in SelectedCommentaries(d, o.commentaries)
        THEN Flatten([k \in 1..Len(d.commentaries[c].passages) |->
                LET cp == d.commentaries[c].passages[k]
                IN  IF cp.ref = ref
                    THEN << [kind |-> "commentary", ref |-> ref, id |-> d.commentaries[c].id] >>
                         \o ScriptBlocks(cp.content, o.scripts)
                    ELSE << >>])
        ELSE << >>])

\* prefatory and concluding passages: a dedicated heading carrying ref and label
MarkedLines(d, o, ps, marker) ==
    Flatten([i \in 1..Len(ps) |->
        << [kind |-> marker, ref |-> ps[i].ref, label |-> ps[i].label] >>
        \o ScriptBlocks(ps[i].content, o.scripts)
        \o CommentaryLines(d, o, ps[i].ref)])

\* first level at which ref leaves the section opened by prev
FirstNewLevel(prev, ref) ==
    IF \E k \in 1..Len(ref) : k > Len(prev) \/ prev[k] # ref[k]
    THEN CHOOSE k \in 1..Len(ref) :
            /\ k > Len(prev) \/ prev[k] # ref[k]
            /\ \A j \in 1..(k - 1) : j <= Len(prev) /\ prev[j] = ref[j]
    ELSE Len(ref)

\* one header per level from the first new level down to the passage itself;
\* header depth = tree depth of the node
HeadingLines(d, prev, ref) ==
    LET from == FirstNewLevel(prev, ref)
    IN  [j \in 1..(Len(ref) - from + 1) |->
            [kind |-> "heading", level |-> from + j - 1,
             key |-> d.structure_levels[from + j - 1],
             seg |-> ref[from + j - 1]]]

RECURSIVE MainLines(_, _, _, _)
MainLines(d, o, ps, prev) ==
    IF ps = << >> THEN << >>
    ELSE HeadingLines(d, prev, Head(ps).ref)
         \o ScriptBlocks(Head(ps).content, o.scripts)
         \o CommentaryLines(d, o, Head(ps).ref)
         \o MainLines(d, o, Tail(ps), Head(ps).ref)

Frontmatter(d, o) ==
    [kind |-> "frontmatter", grantha_id |-> d.grantha_id, scripts |-> o.scripts,
     structure_levels |-> d.structure_levels,
     commentaries_metadata |->
         LET cs == Filter(d.commentaries, SelectedCommentaries(d, o.commentaries))
         IN  [c \in 1..Len(cs) |-> cs[c].id],
     validation_hash |-> hashDocument(Restrict(d, o))]

Serialize(d, o) ==
    << Frontmatter(d, o) >>
    \o MarkedLines(d, o, d.prefatory, "prefatory")
    \o MainLines(d, o, d.main, << >>)
    \o MarkedLines(d, o, d.concluding, "concluding")

(***************************************************************************)
(* tools/grantha_converter/md_to_json.py: single-pass parse                *)
(***************************************************************************)
EmptyContent == [devanagari |-> << >>, roman |-> << >>]
NewPassage(ref, label) == [ref |-> ref, label |-> label, content |-> EmptyContent]
NoTarget == [list |-> "none", c |-> 0, i |-> 0]

ParseError(st, e) == [st EXCEPT !.error = e]

\* text of a closed block: the accumulated lines joined with newlines
BlockText(acc) == Join(acc, "\n")

\* store the text of the block just closed into the passage being filled
SetContent(st, script, t) ==
    LET tg == st.target
    IN  CASE tg.list = "prefatory" ->
               [st EXCEPT !.prefatory[tg.i].content[script] = t]
          [] tg.list = "main" ->
               [st EXCEPT !.main[tg.i].content[script] = t]
          [] tg.list = "concluding" ->
               [st EXCEPT !.concluding[tg.i].content[script] = t]
          [] tg.list = "commentary" ->
               [st EXCEPT !.commentaries[tg.c].passages[tg.i].content[script] = t]

CommentaryIndex(cs, id) ==
    IF \E c \in 1..Len(cs) : cs[c].id = id
    THEN CHOOSE c \in 1..Len(cs) : cs[c].id = id
    ELSE 0

\* a line read while a fenced block is open
ParseInBlock(st, line) ==
    CASE line.kind = "text" -> [st EXCEPT !.acc = Append(@, line.chars)]
      [] line.kind = "close" ->
           SetContent([st EXCEPT !.inBlock = "", !.acc = << >>],
                      st.inBlock, BlockText(st.acc))
      [] OTHER -> ParseError(st, "MalformedMarkupError")

\* a line read outside any block
ParseOutside(st, line) ==
    CASE line.kind = "heading" ->
           IF line.level > Len(st.stack) + 1
           THEN ParseError(st, "StructureInconsistencyError")
           ELSE [st EXCEPT
                   !.stack = SubSeq(@, 1, line.level - 1) \o << line.seg >>,
                   !.keys = IF line.level > Len(@) THEN Append(@, line.key) ELSE @,
                   !.target = [list |-> "main", c |-> 0, i |-> 0]]
      [] line.kind = "prefatory" ->
           [st EXCEPT
              !.prefatory = Append(@, NewPassage(line.ref, line.label)),
              !.target = [list |-> "prefatory", c |-> 0, i |-> Len(st.prefatory) + 1]]
      [] line.kind = "concluding" ->
           [st EXCEPT
              !.concluding = Append(@, NewPassage(line.ref, line.label)),
              !.target = [list |-> "concluding", c |-> 0, i |-> Len(st.concluding) + 1]]
      [] line.kind = "commentary" ->
           LET found == CommentaryIndex(st.commentaries, line.id)
               cs == IF found = 0
                     THEN Append(st.commentaries, [id |-> line.id, passages |-> << >>])
                     ELSE st.commentaries
               c == IF found = 0 THEN Len(cs) ELSE found
           IN  [st EXCEPT
                  !.commentaries =
                      [cs EXCEPT ![c].passages = Append(@, NewPassage(line.ref, << >>))],
                  !.target = [list |-> "commentary", c |-> c,
                              i |-> Len(cs[c].passages) + 1]]
      [] line.kind = "open" ->
           IF st.target.list = "none"
           THEN ParseError(st, "MalformedMarkupError")
           ELSE IF st.target.list = "main" /\ st.target.i = 0
           THEN [st EXCEPT
                   !.main = Append(@, NewPassage(st.stack, << >>)),
                   !.target = [list |-> "main", c |-> 0, i |-> Len(st.main) + 1],
                   !.inBlock = line.script, !.acc = << >>]
           ELSE [st EXCEPT !.inBlock = line.script, !.acc = << >>]
      [] line.kind = "text" -> st
      [] OTHER -> ParseError(st, "MalformedMarkupError")

ParseLine(st, line) ==
    IF st.error # "" THEN st
    ELSE IF st.inBlock # "" THEN ParseInBlock(st, line)
    ELSE ParseOutside(st, line)

RECURSIVE ParseLines(_, _, _)
ParseLines(st, lines, n) ==
    IF n > Len(lines) THEN st
    ELSE ParseLines(ParseLine(st, lines[n]), lines, n + 1)

\* the commentaries declared in the header, in declaration order, still empty
ParseStart(header) ==
    [error |-> "", stack |-> << >>, keys |-> << >>, target |-> NoTarget,
     inBlock |-> "", acc |-> << >>,
     prefatory |-> << >>, main |-> << >>, concluding |-> << >>,
     commentaries |-> [c \in 1..Len(header.commentaries_metadata) |->
                          [id |-> header.commentaries_metadata[c], passages |-> << >>]]]

\* parse(markup): the reconstructed document, or the error raised
Parse(lines) ==
    IF lines = << >> \/ lines[1].kind # "frontmatter"
    THEN [kind |-> "error", error |-> "MalformedMarkupError"]
    ELSE LET st == ParseLines(ParseStart(lines[1]), lines, 2)
         IN  IF st.error # "" THEN [kind |-> "error", error |-> st.error]
             ELSE IF st.inBlock # ""
             THEN [kind |-> "error", error |-> "MalformedMarkupError"]
             ELSE [kind |-> "document", error |-> "",
                   grantha_id |-> lines[1].grantha_id,
                   structure_levels |-> st.keys,
                   validation_hash |-> lines[1].validation_hash,
                   prefatory |-> st.prefatory, main |-> st.main,
                   concluding |-> st.concluding, commentaries |-> st.commentaries]

(***************************************************************************)
(* RoundTripValidator                                                      *)
(***************************************************************************)
\* pass/fail is hash equality with the hash stored in the header
ValidateSkipped(originalHash, reconstructed) == TRUE
Validate(originalHash, reconstructed) == hashDocument(reconstructed) = originalHash

(***************************************************************************)
(* Documents and options given to the converter                            *)
(***************************************************************************)
LevelKeys == << "Kanda", "Adhyaya", "Brahmana", "Khanda", "Mantra" >>
StructureLevels(depth) == SubSeq(LevelKeys, Len(LevelKeys) - depth + 1, Len(LevelKeys))

\* verse texts: spaces and a danda; two lines with a stanza break and an
\* indented second line; a zero-width joiner
Verse1 == << "a", " ", "b", "u0964" >>
Verse2 == << "b", "\n", "\n", " ", "a", "u0965" >>
Verse3 == << "a", "u200D", "c" >>
Verses == << Verse1, Verse2, Verse3 >>
RomanVerse == << "r", " ", "s", "." >>
Gloss1 == << "g", ",", " ", "h" >>
Gloss2 == << "k", "\n", "m" >>
ShantiLabel == << "l" >>
PhalaLabel == << "p" >>

\* refs of the three main passages of a document of the given depth: two
\* passages in one innermost section and one in the next section
MainRef(depth, k) ==
    IF depth = 1 THEN << k >>
    ELSE [i \in 1..(depth - 2) |-> 3] \o (<< <<1, 1>>, <<1, 2>>, <<2, 1>> >>)[k]

\* prefatory and concluding material is numbered around the main passages
WithLast(ref, n) == SubSeq(ref, 1, Len(ref) - 1) \o << n >>

DocPassage(ref, label, dev, rom) ==
    [ref |-> ref, label |-> label, content |-> [devanagari |-> dev, roman |-> rom]]

\* a library document: depth levels, optionally with roman text and with
\* prefatory and concluding material, and with 0, 1 or 2 commentaries
MakeDoc(depth, rich, ncomm) ==
    [kind |-> "document", error |-> "",
     grantha_id |-> ChandogyaId,
     structure_levels |-> StructureLevels(depth),
     prefatory |-> IF rich
                   THEN << DocPassage(WithLast(MainRef(depth, 1), 0), ShantiLabel, Verse1, << >>) >>
                   ELSE << >>,
     main |-> [k \in 1..3 |->
                  DocPassage(MainRef(depth, k), << >>, Verses[k],
                             IF rich /\ k = 1 THEN RomanVerse ELSE << >>)],
     concluding |-> IF rich
                    THEN << DocPassage(WithLast(MainRef(depth, 3), 9), PhalaLabel, Verse3, << >>) >>
                    ELSE << >>,
     commentaries |->
         SubSeq(<< [id |-> "c1",
                    passages |-> << DocPassage(MainRef(depth, 2), << >>, Gloss1, << >>),
                                    DocPassage(MainRef(depth, 3), << >>, Gloss2, << >>) >>],
                   [id |-> "c2",
                    passages |-> << DocPassage(MainRef(depth, 1), << >>, Gloss2,
                                               IF rich THEN RomanVerse ELSE << >>) >>] >>,
                1, ncomm)]

Documents ==
    { MakeDoc(depth, rich, ncomm) :
        depth \in 1..MaxDepth, rich \in BOOLEAN, ncomm \in 0..2 }

Options ==
    [scripts : { {"devanagari"}, {"roman"}, {"devanagari", "roman"} },
     commentaries : { "none", "all", "c1" }]

(***************************************************************************)
(* The proofreading workflow: json2md, manual edits, md2json               *)
(***************************************************************************)
\* indices of the markup lines lying inside a fenced content block
InBlock(lines, i) ==
    /\ i \in 1..Len(lines)
    /\ lines[i].kind = "text"

InsertAt(lines, i, line) == SubSeq(lines, 1, i - 1) \o << line >> \o SubSeq(lines, i, Len(lines))
RemoveAt(lines, i) == SubSeq(lines, 1, i - 1) \o SubSeq(lines, i + 1, Len(lines))

WhitespaceEdits == { "InsertBlank", "RemoveBlank", "Indent", "Unindent" }

\* json2md: write the markdown file for the document under the options
Export ==
    /\ convPc = "start"
    /\ markup' = Serialize(doc, opts)
    /\ convPc' = "exported"
    /\ UNCHANGED <<doc, opts, edits, parsed, jsonOut, exitCode>>

Edited(name, lines) ==
    /\ convPc = "exported"
    /\ Len(edits) < MaxEdits
    /\ markup' = lines
    /\ edits' = Append(edits, name)
    /\ UNCHANGED <<doc, opts, convPc, parsed, jsonOut, exitCode>>

\* a blank line inserted before line i of a block (i may be the closing fence)
InsertBlank(i) ==
    /\ i \in 2..Len(markup)
    /\ markup[i].kind \in {"text", "close"}
    /\ Edited("InsertBlank", InsertAt(markup, i, [kind |-> "text", chars |-> << >>]))

RemoveBlank(i) ==
    /\ InBlock(markup, i)
    /\ markup[i].chars = << >>
    /\ Edited("RemoveBlank", RemoveAt(markup, i))

Indent(i) ==
    /\ InBlock(markup, i)
    /\ Edited("Indent", [markup EXCEPT ![i].chars = << " " >> \o @])

Unindent(i) ==
    /\ InBlock(markup, i)
    /\ markup[i].chars # << >>
    /\ Head(markup[i].chars) = " "
    /\ Edited("Unindent", [markup EXCEPT ![i].chars = Tail(@)])

\* one significant character of a block replaced by another
CorruptChar(i) ==
    /\ InBlock(markup, i)
    /\ \E j \in 1..Len(markup[i].chars) :
         /\ Normalize(<< markup[i].chars[j] >>) # << >>
         /\ Edited("CorruptChar", [markup EXCEPT ![i].chars[j] = "x"])

\* md2json, first half: parse the markdown file
ImportParse ==
    /\ convPc = "exported"
    /\ parsed' = Parse(markup)
    /\ convPc' = "parsed"
    /\ UNCHANGED <<doc, opts, markup, edits, jsonOut, exitCode>>

\* md2json, second half: validate against the header hash, then write or abort
ImportWrite ==
    /\ convPc = "parsed"
    /\ parsed.kind = "document"
    /\ Validate(parsed.validation_hash, parsed)
    /\ jsonOut' = parsed
    /\ exitCode' = 0
    /\ convPc' = "written"
    /\ UNCHANGED <<doc, opts, markup, edits, parsed>>

ImportAbort ==
    /\ convPc = "parsed"
    /\ ~ (parsed.kind = "document" /\ Validate(parsed.validation_hash, parsed))
    /\ exitCode' = 1
    /\ convPc' = "failed"
    /\ UNCHANGED <<doc, opts, markup, edits, parsed, jsonOut>>

ConvIdle ==
    /\ doc = NoDocument
    /\ opts = [scripts |-> { }, commentaries |-> "none"]
    /\ markup = << >>
    /\ convPc = "idle"
    /\ edits = << >>
    /\ parsed = NoDocument
    /\ jsonOut = NoDocument
    /\ exitCode = 0

(***************************************************************************)
(* lib/data.ts: getPassageHierarchy                                        *)
(***************************************************************************)
\* parseInt(s): the value of the leading digits, NaN when there are none
\* (NaN is written -1; signs and leading blanks do not occur in group keys)
NaN == -1
DigitValue(c) == CHOOSE n \in 0..9 : <<"0", "1", "2", "3", "4", "5", "6", "7", "8", "9">>[n + 1] = c

RECURSIVE ParseDigits(_, _)
ParseDigits(s, acc) ==
    IF s = << >> \/ Head(s) \notin Digits THEN acc
    ELSE ParseDigits(Tail(s), acc * 10 + DigitValue(Head(s)))

parseInt(s) == IF s = << >> \/ Head(s) \notin Digits THEN NaN ELSE ParseDigits(s, 0)

\* a.split(' ').pop() || '0'
LastToken(key) ==
    LET tokens == Split(key, " ")
    IN  IF tokens[Len(tokens)] = << >> THEN << "0" >> ELSE tokens[Len(tokens)]

\* lexicographic order on strings by code unit, as the default sort compares
RECURSIVE StringLess(_, _)
StringLess(a, b) ==
    IF b = << >> THEN FALSE
    ELSE IF a = << >> THEN TRUE
    ELSE IF Head(a) # Head(b)
         THEN (IF Head(a) \in Digits /\ Head(b) \in Digits
               THEN DigitValue(Head(a)) < DigitValue(Head(b))
               ELSE Head(a) \notin Digits /\ Head(b) \in Digits)
    ELSE StringLess(Tail(a), Tail(b))

\* the comparator (a, b) => numA - numB; a NaN difference compares as equal
CompareGroupKeysLexicographic(a, b) ==
    IF StringLess(a, b) THEN -1 ELSE IF StringLess(b, a) THEN 1 ELSE 0
CompareGroupKeys(a, b) ==
    LET numA == parseInt(LastToken(a))
        numB == parseInt(LastToken(b))
    IN  IF numA = NaN \/ numB = NaN THEN 0 ELSE numA - numB

\* Array.prototype.sort with the comparator: a stable sort
RECURSIVE InsertGroupKey(_, _)
InsertGroupKey(sorted, k) ==
    IF sorted = << >> THEN << k >>
    ELSE IF CompareGroupKeys(sorted[Len(sorted)], k) > 0
         THEN InsertGroupKey(SubSeq(sorted, 1, Len(sorted) - 1), k) \o << sorted[Len(sorted)] >>
    ELSE Append(sorted, k)

RECURSIVE SortGroupKeys(_)
SortGroupKeys(keys) ==
    IF keys = << >> THEN << >>
    ELSE InsertGroupKey(SortGroupKeys(SubSeq(keys, 1, Len(keys) - 1)), keys[Len(keys)])

GroupIndex(groups, key) ==
    IF \E g \in 1..Len(groups) : groups[g].key = key
    THEN CHOOSE g \in 1..Len(groups) : groups[g].key = key
    ELSE 0

\* const refPart = refParts[refLevel] (refLevel counts from 0)
RefPartAtFirst(refParts, refLevel) == refParts[1]
RefPartAt(refParts, refLevel) == refParts[refLevel + 1]

\* the for loop filling groups[groupKey]; Object.keys keeps insertion order
\* (a key always holds a blank, so it is never an array index)
RECURSIVE GroupByRefPart(_, _, _, _)
GroupByRefPart(passages, name, refLevel, groups) ==
    IF passages = << >> THEN groups
    ELSE LET passage == Head(passages)
             refParts == Split(passage.ref, ".")
             groupKey == name \o << " " >> \o RefPartAt(refParts, refLevel)
             g == GroupIndex(groups, groupKey)
         IN  GroupByRefPart(Tail(passages), name, refLevel,
                IF Len(refParts) > refLevel
                THEN IF g = 0
                     THEN Append(groups, [key |-> groupKey, passages |-> << passage >>])
                     ELSE [groups EXCEPT ![g].passages = Append(@, passage)]
                ELSE groups)

RECURSIVE buildNestedGroups(_, _, _)
buildNestedGroups(passages, structureLevel, refLevel) ==
    LET groups == GroupByRefPart(passages, structureLevel.scriptNames.devanagari,
                                 refLevel, << >>)
        sortedGroupKeys == SortGroupKeys([g \in 1..Len(groups) |-> groups[g].key])
    IN  [k \in 1..Len(sortedGroupKeys) |->
            LET groupPassages == groups[GroupIndex(groups, sortedGroupKeys[k])].passages
            IN  IF Len(structureLevel.children) > 0
                THEN [level |-> sortedGroupKeys[k], leaf |-> FALSE,
                      children |-> buildNestedGroups(groupPassages,
                                                     structureLevel.children[1],
                                                     refLevel + 1)]
                ELSE [level |-> sortedGroupKeys[k], leaf |-> TRUE,
                      passages |-> groupPassages]]

NoHierarchy == [prefatory |-> << >>, main |-> << >>, concluding |-> << >>]

getPassageHierarchy(grantha) ==
    [prefatory |-> grantha.prefatory_material,
     main |-> IF Len(grantha.structure_levels) > 0
              THEN buildNestedGroups(grantha.passages, grantha.structure_levels[1], 0)
              ELSE << [level |-> << "P", "a", "s", "s", "a", "g", "e", "s" >>,
                       leaf |-> TRUE, passages |-> grantha.passages] >>,
     concluding |-> grantha.concluding_material]

(***************************************************************************)
(* Granthas given to getPassageHierarchy                                   *)
(***************************************************************************)
DigitChars == <<"0", "1", "2", "3", "4", "5", "6", "7", "8", "9">>
LevelName(i) == << "L", DigitChars[i + 1] >>

StructureLevel(i, children) ==
    [key |-> LevelName(i), scriptNames |-> [devanagari |-> LevelName(i)],
     children |-> children]

\* the chain of levels i..d, each the only child of the one above
RECURSIVE Chain(_, _)
Chain(i, d) == StructureLevel(i, IF i < d THEN << Chain(i + 1, d) >> ELSE << >>)

\* structure_levels whose first-child chain has d levels; the branchy form
\* adds a deeper second child under the root and a deeper second root
StructureLevelsOf(d, branchy) ==
    IF d = 0 THEN << >>
    ELSE IF ~branchy THEN << Chain(1, d) >>
    ELSE << StructureLevel(1, IF d > 1
                              THEN << Chain(2, d), Chain(2, d + 2) >>
                              ELSE << >>),
            Chain(1, d + 1) >>

Ones(n) == [i \in 1..n |-> << "1" >>]
RefOf(segs) == Join(segs, ".")

\* refs of main passages under a d-level structure: one segment 9 or 10
\* among ones, all ones, one segment too few and one too many
RefPool(d) ==
    { RefOf([Ones(d) EXCEPT ![l] = v]) :
          l \in 1..d, v \in { << "9" >>, << "1", "0" >> } }
    \cup { RefOf(Ones(d)), RefOf(Ones(d + 1)) }
    \cup (IF d > 1 THEN { RefOf(Ones(d - 1)) } ELSE { })

MainPassage(ref) == [ref |-> ref, passage_type |-> "main"]

GranthaOf(d, branchy, refs) ==
    [structure_levels |-> StructureLevelsOf(d, branchy),
     prefatory_material |-> << [ref |-> << "0" >>, passage_type |-> "prefatory"] >>,
     passages |-> [i \in 1..Len(refs) |-> MainPassage(refs[i])],
     concluding_material |-> << >>,
     commentaries |-> << >>]

\* the passage lists of a grantha of depth d: distinct refs in any order
RefLists(d) ==
    { r \in SeqsUpTo(RefPool(IF d = 0 THEN 1 ELSE d), MaxPassages) : NoRepeat(r) }

NoData == [structure_levels |-> << >>, prefatory_material |-> << >>,
           passages |-> << >>, concluding_material |-> << >>, commentaries |-> << >>]

\* the navigation sidebar: getPassageHierarchy(grantha)
BuildHierarchy ==
    /\ hierPc = "start"
    /\ hierarchy' = getPassageHierarchy(data)
    /\ hierPc' = "grouped"
    /\ UNCHANGED data

HierIdle ==
    /\ data = NoData
    /\ hierarchy = NoHierarchy
    /\ hierPc = "idle"

(***************************************************************************)
(* scripts/validate-data.ts: getStructureDepth                             *)
(***************************************************************************)
\* the while loop: follow children[0] until a level has no children
RECURSIVE DepthBelow(_, _)
DepthBelow(current, depth) ==
    IF Len(current.children) > 0
    THEN DepthBelow(current.children[1], depth + 1)
    ELSE depth

\* the same walk through the last child of each level
RECURSIVE DepthBelowLast(_, _)
DepthBelowLast(current, depth) ==
    IF Len(current.children) > 0
    THEN DepthBelowLast(current.children[Len(current.children)], depth + 1)
    ELSE depth

getStructureDepthLastChild(levels) ==
    IF Len(levels) = 0 THEN 0 ELSE DepthBelowLast(levels[Len(levels)], 1)
getStructureDepth(levels) ==
    IF Len(levels) = 0 THEN 0 ELSE DepthBelow(levels[1], 1)

(***************************************************************************)
(* scripts/validate-data.ts: validateStructureConsistency and the loop     *)
(***************************************************************************)
\* a passage object without a ref property: ref.split throws a TypeError
Undefined == << "undefined" >>

LevelsMismatchShortOnly(n, depth) == n < depth
LevelsMismatch(n, depth) == n # depth

\* the errors printed for one passage of allPassages
PassageErrors(passage, depth) ==
    LET refParts == Split(passage.ref, ".")
    IN  IF passage.passage_type = "main"
        THEN (IF LevelsMismatch(Len(refParts), depth)
              THEN << [kind |-> "levels", ref |-> passage.ref] >>
              ELSE << >>)
             \o Flatten([i \in 1..Len(refParts) |->
                  IF ~IsNumeric(refParts[i])
                  THEN << [kind |-> "non-numeric", ref |-> passage.ref] >>
                  ELSE << >>])
        ELSE << >>

\* the errors printed for one commentary passage: only the level count
CommentaryPassageErrors(passage, depth) ==
    IF LevelsMismatch(Len(Split(passage.ref, ".")), depth)
    THEN << [kind |-> "commentary levels", ref |-> passage.ref] >>
    ELSE << >>

\* the two for loops, stopping at the first passage whose ref is undefined
RECURSIVE CheckPassages(_, _, _)
CheckPassages(ps, depth, acc) ==
    IF ps = << >> \/ acc.threw THEN acc
    ELSE IF Head(ps).ref = Undefined
    THEN [acc EXCEPT !.threw = TRUE]
    ELSE CheckPassages(Tail(ps), depth,
            [acc EXCEPT !.errors =
                @ \o (IF Head(ps).passage_type = "commentary"
                      THEN CommentaryPassageErrors(Head(ps), depth)
                      ELSE PassageErrors(Head(ps), depth))])

validateStructureConsistency(d) ==
    IF Len(d.structure_levels) = 0
    THEN [valid |-> FALSE, threw |-> FALSE, expectedDepth |-> 0,
          errors |-> << [kind |-> "Missing structure_levels", ref |-> << >>] >>]
    ELSE LET depth == getStructureDepth(d.structure_levels)
             allPassages == d.prefatory_material \o d.passages \o d.concluding_material
             commentaryPassages ==
                 Flatten([c \in 1..Len(d.commentaries) |-> d.commentaries[c].passages])
             r == CheckPassages(allPassages \o commentaryPassages, depth,
                                [errors |-> << >>, threw |-> FALSE])
         IN  [valid |-> r.errors = << >>, threw |-> r.threw,
              expectedDepth |-> depth, errors |-> r.errors]

(***************************************************************************)
(* The files of public/data/library                                        *)
(***************************************************************************)
\* a file whose text is not JSON: JSON.parse throws a SyntaxError
Unparseable == [kind |-> "unparseable"]

TypedPassage(ref, type) == [ref |-> ref, passage_type |-> type]

\* main passage lists for a d-level structure: right and wrong refs
ValPassageLists(d) ==
    { << >>,
      << MainPassage(RefOf(Ones(d))) >>,
      << MainPassage(RefOf(Ones(d + 1))) >>,
      << MainPassage(RefOf(Ones(d))), MainPassage(RefOf(Ones(d - 1))) >>,
      << MainPassage(RefOf([Ones(d) EXCEPT ![d] = << "1", "a" >>])) >>,
      << MainPassage(RefOf([Ones(d) EXCEPT ![1] = << >>])),
         MainPassage(RefOf(Ones(d))) >>,
      << MainPassage(RefOf([Ones(d) EXCEPT ![d] = << "-", "1" >>])) >>,
      << MainPassage(Undefined) >> }

JsonFile(levels, passages, commentaryRefs, schemaValid) ==
    [kind |-> "json", schemaValid |-> schemaValid,
     structure_levels |-> levels,
     prefatory_material |-> << TypedPassage(<< "0" >>, "prefatory") >>,
     passages |-> passages,
     concluding_material |-> << >>,
     commentaries |->
        IF commentaryRefs = << >> THEN << >>
        ELSE << [commentary_id |-> "c1",
                 passages |-> [i \in 1..Len(commentaryRefs) |->
                                  TypedPassage(commentaryRefs[i], "commentary")]] >>]

\* single files of every depth, plain or branchy, with every passage list
ValFiles ==
    { JsonFile(StructureLevelsOf(d, FALSE), ps, << >>, TRUE) :
          d \in 1..MaxTreeDepth, ps \in UNION { ValPassageLists(dd) : dd \in 1..MaxTreeDepth } }
    \cup { JsonFile(StructureLevelsOf(d, TRUE), << MainPassage(RefOf(Ones(d))) >>, << >>, TRUE) :
          d \in 0..MaxTreeDepth }
    \cup { JsonFile(StructureLevelsOf(0, FALSE), ps, << >>, TRUE) : ps \in ValPassageLists(1) }

\* the files a batch is made of: unparseable, valid, schema-invalid,
\* wrong ref depth, wrong commentary ref depth, a passage without ref
BatchFiles ==
    { Unparseable,
      JsonFile(StructureLevelsOf(2, FALSE), << MainPassage(RefOf(Ones(2))) >>,
               << RefOf(Ones(2)) >>, TRUE),
      JsonFile(StructureLevelsOf(2, FALSE), << MainPassage(RefOf(Ones(2))) >>,
               << >>, FALSE),
      JsonFile(StructureLevelsOf(2, FALSE), << MainPassage(RefOf(Ones(3))) >>,
               << >>, TRUE),
      JsonFile(StructureLevelsOf(2, FALSE), << MainPassage(RefOf(Ones(2))) >>,
               << RefOf(Ones(1)) >>, TRUE),
      JsonFile(StructureLevelsOf(1, FALSE), << MainPassage(Undefined) >>,
               << >>, FALSE) }

Batches ==
    { << f >> : f \in ValFiles }
    \cup { b \in SeqsUpTo(BatchFiles, MaxFiles) : Len(b) >= 2 }

\* one round of the for loop over a file that parses and validates without
\* an exception: schema validation, then structure validation
ValidateFile ==
    /\ valPc = "running"
    /\ fileIdx < Len(files)
    /\ LET file == files[fileIdx + 1]
       IN  /\ file.kind = "json"
           /\ LET r == validateStructureConsistency(file)
              IN  /\ ~r.threw
                  /\ errors' = errors
                        \o (IF file.schemaValid THEN << >>
                            ELSE << [file |-> fileIdx + 1, kind |-> "schema", ref |-> << >>] >>)
                        \o [i \in 1..Len(r.errors) |->
                               [file |-> fileIdx + 1, kind |-> r.errors[i].kind,
                                ref |-> r.errors[i].ref]]
                  /\ allValid' = (allValid /\ file.schemaValid /\ r.valid)
                  /\ expectedDepth' = r.expectedDepth
    /\ fileIdx' = fileIdx + 1
    /\ UNCHANGED <<files, valPc>>

\* JSON.parse throws on the file's text; nothing in the loop catches it
ParseThrows ==
    /\ valPc = "running"
    /\ fileIdx < Len(files)
    /\ files[fileIdx + 1].kind = "unparseable"
    /\ valPc' = "crashed"
    /\ fileIdx' = fileIdx + 1
    /\ UNCHANGED <<files, allValid, errors, expectedDepth>>

\* ref.split throws inside validateStructureConsistency, after the schema
\* errors of the file were printed
StructureCheckThrows ==
    /\ valPc = "running"
    /\ fileIdx < Len(files)
    /\ LET file == files[fileIdx + 1]
       IN  /\ file.kind = "json"
           /\ LET r == validateStructureConsistency(file)
              IN  /\ r.threw
                  /\ errors' = errors
                        \o (IF file.schemaValid THEN << >>
                            ELSE << [file |-> fileIdx + 1, kind |-> "schema", ref |-> << >>] >>)
                        \o [i \in 1..Len(r.errors) |->
                               [file |-> fileIdx + 1, kind |-> r.errors[i].kind,
                                ref |-> r.errors[i].ref]]
                  /\ allValid' = (allValid /\ file.schemaValid)
                  /\ expectedDepth' = r.expectedDepth
    /\ valPc' = "crashed"
    /\ fileIdx' = fileIdx + 1
    /\ UNCHANGED files

\* the loop ran through every file: 'All data files are valid!' if allValid
ValidationDone ==
    /\ valPc = "running"
    /\ fileIdx = Len(files)
    /\ valPc' = "done"
    /\ UNCHANGED <<files, fileIdx, allValid, errors, expectedDepth>>

ValIdle ==
    /\ files = << >>
    /\ fileIdx = 0
    /\ allValid = TRUE
    /\ errors = << >>
    /\ expectedDepth = 0
    /\ valPc = "idle"

(***************************************************************************)
(* hooks/useGranthaLoader.ts: loadPart                                     *)
(***************************************************************************)
PartPassage(a, b, partId) == [ref |-> Ref(a, b), part_id |-> partId]

\* GranthaPartContent served for each part file
PartContent(partId) ==
    CASE partId = "1" ->
           [prefatory_material |-> << PartPassage("1", "0", "") >>,
            passages |-> << PartPassage("1", "1", ""), PartPassage("1", "2", "") >>,
            concluding_material |-> << >>,
            commentaries |-> << [commentary_id |-> "c1",
                                 passages |-> << [ref |-> Ref("1", "1")] >>] >>]
      [] partId = "2" ->
           [prefatory_material |-> << >>,
            passages |-> << PartPassage("2", "1", "") >>,
            concluding_material |-> << >>,
            commentaries |-> << [commentary_id |-> "c1",
                                 passages |-> << [ref |-> Ref("2", "1")] >>],
                                [commentary_id |-> "c2",
                                 passages |-> << [ref |-> Ref("2", "1")] >>] >>]
      [] OTHER ->
           [prefatory_material |-> << >>,
            passages |-> << PartPassage("3", "1", "") >>,
            concluding_material |-> << PartPassage("3", "9", "") >>,
            commentaries |-> << >>]

\* grantha.parts: the manifest of { id, file }
PartManifest == << "1", "2", "3" >>
\* part ids a caller may ask for; "9" is not in the manifest
RequestedParts == { "1", "2", "3", "9" }

TagPartId(ps, partId) == [i \in 1..Len(ps) |-> [ps[i] EXCEPT !.part_id = partId]]

RefsOf(ps) == { ps[i].ref : i \in 1..Len(ps) }

RECURSIVE WithoutRefs(_, _)
WithoutRefs(ps, refs) ==
    IF ps = << >> THEN << >>
    ELSE (IF Head(ps).ref \in refs THEN << >> ELSE << Head(ps) >>)
         \o WithoutRefs(Tail(ps), refs)

\* the grantha a Grantha object stands for: its commentaries read off the heap
Deref(g, h) == [g EXCEPT !.commentaries = [i \in 1..Len(@) |-> h[@[i]]]]

\* newData.commentaries.find(c => c.commentary_id === id): the object, 0 if none
FindCommentaryObject(g, h, id) ==
    IF \E i \in 1..Len(g.commentaries) : h[g.commentaries[i]].commentary_id = id
    THEN g.commentaries[CHOOSE i \in 1..Len(g.commentaries) :
            /\ h[g.commentaries[i]].commentary_id = id
            /\ \A j \in 1..(i - 1) : h[g.commentaries[j]].commentary_id # id]
    ELSE 0

\* partContent.commentaries.forEach: existingCommentary.passages.push(...) on
\* the Commentary object found, which newData shares with oldData
RECURSIVE PushCommentaries(_, _, _)
PushCommentaries(g, h, commentaryParts) ==
    IF commentaryParts = << >> THEN h
    ELSE LET commentaryPart == Head(commentaryParts)
             existingCommentary == FindCommentaryObject(g, h, commentaryPart.commentary_id)
         IN  PushCommentaries(g,
                IF existingCommentary # 0
                THEN [h EXCEPT ![existingCommentary].passages =
                        @ \o WithoutRefs(commentaryPart.passages, RefsOf(@))]
                ELSE h,
                Tail(commentaryParts))

\* the updater given to setQueryData: newData = { ...oldData } with the three
\* passage lists replaced by merged copies
MergedData(oldData, partContent, partId) ==
    [oldData EXCEPT
        !.passages = @ \o TagPartId(WithoutRefs(partContent.passages, RefsOf(@)), partId),
        !.prefatory_material =
            @ \o TagPartId(WithoutRefs(partContent.prefatory_material, RefsOf(@)), partId),
        !.concluding_material =
            @ \o TagPartId(WithoutRefs(partContent.concluding_material, RefsOf(@)), partId)]

\* the same two steps in the second useGranthaLoader of the source: the
\* part's passages are appended as they come, nothing is filtered
RECURSIVE PushAllCommentaries(_, _, _)
PushAllCommentaries(g, h, commentaryParts) ==
    IF commentaryParts = << >> THEN h
    ELSE LET commentaryPart == Head(commentaryParts)
             existingCommentary == FindCommentaryObject(g, h, commentaryPart.commentary_id)
         IN  PushAllCommentaries(g,
                IF existingCommentary # 0
                THEN [h EXCEPT ![existingCommentary].passages =
                        @ \o commentaryPart.passages]
                ELSE h,
                Tail(commentaryParts))

AppendedData(oldData, partContent, partId) ==
    [oldData EXCEPT
        !.passages = @ \o TagPartId(partContent.passages, partId),
        !.prefatory_material = @ \o TagPartId(partContent.prefatory_material, partId),
        !.concluding_material = @ \o TagPartId(partContent.concluding_material, partId)]

\* the grantha loadGrantha resolved with: the metadata, its commentaries
\* declared, and the part `first` already loaded
InitialHeap(declared, first) ==
    [i \in 1..Len(declared) |->
        LET cs == PartContent(first).commentaries
        IN  [commentary_id |-> declared[i],
             passages |-> IF \E c \in 1..Len(cs) : cs[c].commentary_id = declared[i]
                          THEN cs[CHOOSE c \in 1..Len(cs) :
                                     cs[c].commentary_id = declared[i]].passages
                          ELSE << >>]]

InitialGrantha(declared, first) ==
    [parts |-> PartManifest,
     passages |-> TagPartId(PartContent(first).passages, first),
     prefatory_material |-> TagPartId(PartContent(first).prefatory_material, first),
     concluding_material |-> TagPartId(PartContent(first).concluding_material, first),
     commentaries |-> [i \in 1..Len(declared) |-> i]]

Snapshot(g, h) == [object |-> g, contents |-> Deref(g, h)]

\* loadPart(partId) up to the await: the three early returns, then
\* setIsLoadingPart(true)
LoadPartCall(partId) ==
    /\ nCalls < MaxLoadCalls
    /\ nCalls' = nCalls + 1
    /\ IF \/ partId \notin { queryData.parts[i] : i \in 1..Len(queryData.parts) }
          \/ \E i \in 1..Len(queryData.passages) : queryData.passages[i].part_id = partId
       THEN UNCHANGED <<isLoadingPart, inFlight>>
       ELSE /\ isLoadingPart' = TRUE
            /\ inFlight' = Append(inFlight, partId)
    /\ UNCHANGED <<queryData, heap, handedOut, loaderVersion>>

\* loadGranthaPart resolved: setQueryData with the updater, then finally
LoadPartFetched(k) ==
    /\ k \in 1..Len(inFlight)
    /\ LET partId == inFlight[k]
           partContent == PartContent(partId)
           newData == IF loaderVersion = 1
                      THEN MergedData(queryData, partContent, partId)
                      ELSE AppendedData(queryData, partContent, partId)
           newHeap == IF loaderVersion = 1
                      THEN PushCommentaries(newData, heap, partContent.commentaries)
                      ELSE PushAllCommentaries(newData, heap, partContent.commentaries)
       IN  /\ queryData' = newData
           /\ heap' = newHeap
           /\ handedOut' = Append(handedOut, Snapshot(newData, newHeap))
    /\ inFlight' = RemoveAt(inFlight, k)
    /\ isLoadingPart' = FALSE
    /\ UNCHANGED <<nCalls, loaderVersion>>

\* loadGranthaPart rejected: the catch logs, then finally
LoadPartFailed(k) ==
    /\ k \in 1..Len(inFlight)
    /\ inFlight' = RemoveAt(inFlight, k)
    /\ isLoadingPart' = FALSE
    /\ UNCHANGED <<queryData, heap, handedOut, nCalls, loaderVersion>>

\* TextContent: new Set(passages.map(p => p.part_id).filter(Boolean)) over
\* getAllPassagesForNavigation(grantha)
LoadedPartIds(g) ==
    { p.part_id : p \in { g.prefatory_material[i] : i \in 1..Len(g.prefatory_material) }
                        \cup { g.passages[i] : i \in 1..Len(g.passages) }
                        \cup { g.concluding_material[i] : i \in 1..Len(g.concluding_material) } }
        \ { "" }

\* the part the IntersectionObserver callback asks for: the one after the
\* last manifest entry that is loaded; "" when that entry is the last one
NextPartAtEnd(g) ==
    LET loadedPartIds == LoadedPartIds(g)
        loadedAt == { i \in 1..Len(g.parts) : g.parts[i] \in loadedPartIds }
        lastLoadedPartIndex ==
            IF loadedAt = {} THEN 0
            ELSE CHOOSE i \in loadedAt : \A j \in loadedAt : j <= i
    IN  IF lastLoadedPartIndex < Len(g.parts) THEN g.parts[lastLoadedPartIndex + 1]
        ELSE ""

\* the loader element at the end of the text scrolls into view; loaderRef
\* observes it only while isLoadingPart is false
EndOfTextReached ==
    /\ ~isLoadingPart
    /\ NextPartAtEnd(queryData) # ""
    /\ LoadPartCall(NextPartAtEnd(queryData))

\* a reference preview of a passage of the loaded grantha: getPassagePreview
\* gets the cached object back from loadGrantha and looks the passage up
PreviewCached(ref) ==
    /\ handedOut # << >>
    /\ previewResult' =
          IF getPassageByRef(Deref(handedOut[1].object, heap), ref) # 0
          THEN "passage.content.sanskrit.devanagari"
          ELSE "Passage not found."
    /\ UNCHANGED <<text, abbreviationMap, lastIndex, references, refPc,
                   previewRef, threw, calls>>

(***************************************************************************)
(* lib/hashUtils.ts: parseHash, buildHash, getFirstVerseRef,               *)
(* isValidVerseRef                                                         *)
(***************************************************************************)
\* A hash is the sequence of its delimiters ("#", ":", "?", "&", "=", ",",
\* and the escape "%2C") and of the words between them; a grantha id, a
\* verse ref and a commentary id are strings of this kind as well.
IsavasyaId == << "isavasya-upanishad" >>
KenaId == << "kena-upanishad" >>
GitaId == << "bhagavad-gita" >>     \* not in the library

\* arr[i] where a missing element is only tested with ! or if (...):
\* undefined and "" are both falsy
At(arr, i) == IF i <= Len(arr) THEN arr[i] ELSE << >>

\* Array.prototype.includes
Includes(arr, x) == \E i \in 1..Len(arr) : arr[i] = x

\* URLSearchParams serialises "," as "%2C" and decodes it on get
RECURSIVE PercentEncode(_)
PercentEncode(s) ==
    IF s = << >> THEN << >>
    ELSE << IF Head(s) = "," THEN "%2C" ELSE Head(s) >> \o PercentEncode(Tail(s))

RECURSIVE PercentDecode(_)
PercentDecode(s) ==
    IF s = << >> THEN << >>
    ELSE << IF Head(s) = "%2C" THEN "," ELSE Head(s) >> \o PercentDecode(Tail(s))

\* new URLSearchParams(queryPart).get(name); null is only tested with if (c)
SearchParamsGet(queryPart, name) ==
    LET pairs == Split(queryPart, "&")
        named == { i \in 1..Len(pairs) : Split(pairs[i], "=")[1] = name }
    IN  IF named = {} THEN << >>
        ELSE LET first == CHOOSE i \in named : \A j \in named : i <= j
             IN  PercentDecode(Join(Tail(Split(pairs[first], "=")), "="))

\* c.split(",").filter(Boolean)
SplitCommentaryIds(c) == SelectSeq(Split(c, ","), LAMBDA id : id # << >>)

\* parseHash returns null: the fields are never read then
NoUrlState ==
    [ok |-> FALSE, granthaId |-> << >>, verseRef |-> << >>, commentaries |-> << >>]

\* commentaries absent is written << >>: every reader uses
\* parsed.commentaries || [] or commentaries?.length.  The display
\* preferences (s, l, dark, size) are parsed too and never read by the hook.
parseHash(hash) ==
    LET cleaned == IF hash # << >> /\ Head(hash) = "#" THEN Tail(hash) ELSE hash
        halves == Split(cleaned, "?")
        pathPart == halves[1]
        queryPart == At(halves, 2)
        path == Split(pathPart, ":")
        granthaId == path[1]
        verseRef == At(path, 2)
        c == IF queryPart # << >> THEN SearchParamsGet(queryPart, << "c" >>) ELSE << >>
    IN  IF granthaId = << >> \/ verseRef = << >> THEN NoUrlState
        ELSE [ok |-> TRUE, granthaId |-> granthaId, verseRef |-> verseRef,
              commentaries |-> IF c # << >> THEN SplitCommentaryIds(c) ELSE << >>]

\* buildHash(state) with includePreferences = false, as the hook calls it
buildHash(s) ==
    << "#" >> \o s.granthaId \o << ":" >> \o s.verseRef \o
    (IF Len(s.commentaries) > 0
     THEN << "?", "c", "=" >> \o PercentEncode(Join(s.commentaries, ","))
     ELSE << >>)

getFirstVerseRef(grantha) ==
    IF Len(grantha.prefatory_material) > 0 THEN grantha.prefatory_material[1].ref
    ELSE IF Len(grantha.passages) > 0 THEN grantha.passages[1].ref
    ELSE << "1" >>

isValidVerseRef(grantha, verseRef) ==
    \/ \E i \in 1..Len(grantha.prefatory_material) :
          grantha.prefatory_material[i].ref = verseRef
    \/ \E i \in 1..Len(grantha.passages) : grantha.passages[i].ref = verseRef
    \/ \E i \in 1..Len(grantha.concluding_material) :
          grantha.concluding_material[i].ref = verseRef

(***************************************************************************)
(* The library the app is served with                                      *)
(***************************************************************************)
\* getAvailableGranthas(): the ids, in the order of the list
AvailableGranthas == << IsavasyaId, KenaId >>

\* loadGrantha(id): the one with prefatory material, the other without
NavGrantha(id) ==
    IF id = KenaId
    THEN [grantha_id |-> KenaId,
          prefatory_material |-> << [ref |-> << "0" >>] >>,
          passages |-> << [ref |-> << "1.1" >>], [ref |-> << "1.2" >>] >>,
          concluding_material |-> << [ref |-> << "5" >>] >>]
    ELSE [grantha_id |-> id,
          prefatory_material |-> << >>,
          passages |-> << [ref |-> << "1" >>], [ref |-> << "2" >>] >>,
          concluding_material |-> << >>]

\* the refs the navigation sidebar offers for a grantha
SidebarRefs(id) ==
    LET g == NavGrantha(id)
    IN  { g.prefatory_material[i].ref : i \in 1..Len(g.prefatory_material) }
        \cup { g.passages[i].ref : i \in 1..Len(g.passages) }
        \cup { g.concluding_material[i].ref : i \in 1..Len(g.concluding_material) }

\* URLs the app is opened with
OpenHashes ==
    { << >>,
      << "#", "isavasya-upanishad", ":", "2", "?", "c", "=", "c1", ",", "c2" >>,
      << "#", "kena-upanishad", ":", "1.1", "?", "c", "=", "c1" >>,
      << "#", "isavasya-upanishad", ":", "7", "?", "c", "=", "c1" >>,
      << "#", "kena-upanishad", ":", "7" >>,
      << "#", "invalid" >> }

\* hashes typed into the address bar or followed as links
TypedHashes ==
    { << "#", "isavasya-upanishad", ":", "2", "?", "c", "=", "c1", ",", "c2" >>,
      << "#", "isavasya-upanishad", ":", "7", "?", "c", "=", "c1" >>,
      << "#", "kena-upanishad", ":", "1.2" >>,
      << "#", "kena-upanishad", ":", "7" >>,
      << "#", "bhagavad-gita", ":", "1", "?", "c", "=", "c2" >>,
      << "#", "invalid" >>,
      << "#", ":", "1" >>,
      << >> }

\* what localStorage holds for "selectedCommentaries" when the app opens;
\* an absent item reads as [] (useVerseHash.ts 97-102)
SavedCommentaries == { << >>, << << "c2" >> >> }

(***************************************************************************)
(* hooks/useVerseHash.ts                                                   *)
(***************************************************************************)
StateOf(g, v, c) == [granthaId |-> g, verseRef |-> v, commentaries |-> c]

\* the hook before its first render
NoState == StateOf(<< >>, << >>, << >>)

Navigation(kind, g) == [kind |-> kind, granthaId |-> g]
NoNavigation == Navigation("none", << >>)

\* the references of the commentary text that are in the library
LibraryReferences ==
    { [granthaId |-> KenaId, path |-> << "1.2" >>],
      [granthaId |-> IsavasyaId, path |-> << "2" >>] }

NotHandled ==
    [kind |-> "none", hash |-> << >>, before |-> NoState, historyBefore |-> 0,
     after |-> NoState, afterHash |-> << >>, historyAfter |-> 0]

\* granthas[0]?.id || "isavasya-upanishad"
DefaultGranthaId(available) ==
    IF Len(available) > 0 THEN available[1] ELSE IsavasyaId

\* the useState initializer: the state it returns, the hash it leaves in the
\* URL and the localStorage item it leaves
InitializeState(hash, availableGranthas, defaultGranthaId, dataMap, saved) ==
    LET p == parseHash(hash)
        known == p.ok /\ Includes(availableGranthas, p.granthaId)
                      /\ p.granthaId \in dataMap
    IN  IF known /\ isValidVerseRef(NavGrantha(p.granthaId), p.verseRef)
        THEN [state |-> StateOf(p.granthaId, p.verseRef, p.commentaries),
              hash |-> hash,
              saved |-> IF Len(p.commentaries) > 0 THEN p.commentaries ELSE saved]
        ELSE IF known
        THEN LET firstRef == getFirstVerseRef(NavGrantha(p.granthaId))
             IN  [state |-> StateOf(p.granthaId, firstRef, p.commentaries),
                  hash |-> buildHash(StateOf(p.granthaId, firstRef, << >>)),
                  saved |-> saved]
        ELSE LET firstRef == IF defaultGranthaId \in dataMap
                             THEN getFirstVerseRef(NavGrantha(defaultGranthaId))
                             ELSE << "1" >>
             IN  [state |-> StateOf(defaultGranthaId, firstRef, saved),
                  hash |-> buildHash(StateOf(defaultGranthaId, firstRef, saved)),
                  saved |-> saved]

\* window.history.replaceState(null, "", buildHash(state)) of the last branch
RevertToDefault(st) == buildHash(StateOf(IsavasyaId, << "1" >>, << >>))
RevertToCurrentState(st) == buildHash(st)

\* window.history.replaceState(null, "", buildHash(...)) of the invalid-verse
\* branch of handleHashChange
FallbackHash(g, firstRef, c) == buildHash(StateOf(g, firstRef, c))

\* handleHashChange: the state it sets, the hash it leaves in the URL and
\* the localStorage item it leaves
HashChangeOutcome(hash, availableGranthas, dataMap, st, saved) ==
    LET p == parseHash(hash)
        known == p.ok /\ Includes(availableGranthas, p.granthaId)
                      /\ p.granthaId \in dataMap
    IN  IF known /\ isValidVerseRef(NavGrantha(p.granthaId), p.verseRef)
        THEN [state |-> StateOf(p.granthaId, p.verseRef, p.commentaries),
              hash |-> hash,
              saved |-> IF Len(p.commentaries) > 0 THEN p.commentaries ELSE saved]
        ELSE IF known
        THEN LET firstRef == getFirstVerseRef(NavGrantha(p.granthaId))
             IN  [state |-> StateOf(p.granthaId, firstRef, p.commentaries),
                  hash |-> FallbackHash(p.granthaId, firstRef, p.commentaries),
                  saved |-> saved]
        ELSE [state |-> st, hash |-> RevertToCurrentState(st), saved |-> saved]

\* updateHash(granthaId, verseRef, commentaries): an assignment to
\* window.location.hash adds a history entry and dispatches hashchange
updateHash(g, v, c) ==
    LET newHash == buildHash(StateOf(g, v, c))
    IN  IF locationHash # newHash
        THEN /\ locationHash' = newHash
             /\ historyLength' = historyLength + 1
             /\ pendingHashChanges' = pendingHashChanges + 1
        ELSE UNCHANGED <<locationHash, historyLength, pendingHashChanges>>

\* first render of Home: granthas is [] and granthaDataMap is empty, and
\* the initializer of the hook's useState runs with them
Mount ==
    /\ homePc = "unmounted"
    /\ LET r == InitializeState(locationHash, granthas,
                                DefaultGranthaId(granthas), granthaDataMap,
                                selectedCommentaries)
       IN  /\ state' = r.state
           /\ locationHash' = r.hash
           /\ selectedCommentaries' = r.saved
           /\ lastHandled' =
                 [kind |-> "open", hash |-> locationHash, before |-> state,
                  historyBefore |-> historyLength, after |-> r.state,
                  afterHash |-> r.hash, historyAfter |-> historyLength]
    /\ homePc' = "listing"
    /\ UNCHANGED <<loading, historyLength, granthas, granthaDataMap, currentGrantha,
                   loadsInFlight, pendingHashChanges, openedHash, navigations,
                   lastNavigation>>

\* the hashchange listener; the effect that registers it re-runs on every
\* change of availableGranthas, granthaDataMap and state, so that it reads
\* the values of the last render
handleHashChange ==
    /\ homePc # "unmounted"
    /\ pendingHashChanges > 0
    /\ pendingHashChanges' = pendingHashChanges - 1
    /\ LET r == HashChangeOutcome(locationHash, granthas, granthaDataMap,
                                  state, selectedCommentaries)
       IN  /\ state' = r.state
           /\ locationHash' = r.hash
           /\ selectedCommentaries' = r.saved
           /\ lastHandled' =
                 [kind |-> "hashchange", hash |-> locationHash, before |-> state,
                  historyBefore |-> historyLength, after |-> r.state,
                  afterHash |-> r.hash, historyAfter |-> historyLength]
    /\ UNCHANGED <<loading, historyLength, granthas, granthaDataMap, currentGrantha,
                   homePc, loadsInFlight, openedHash, navigations,
                   lastNavigation>>

(***************************************************************************)
(* app/page.tsx: Home                                                      *)
(***************************************************************************)
\* loadGranthas effect: getAvailableGranthas() resolved, setGranthas
GranthasListed ==
    /\ homePc = "listing"
    /\ granthas' = AvailableGranthas
    /\ homePc' = "loadingFirst"
    /\ UNCHANGED <<loading, locationHash, historyLength, selectedCommentaries, state,
                   granthaDataMap, currentGrantha, loadsInFlight,
                   pendingHashChanges, openedHash, lastHandled, navigations,
                   lastNavigation>>

\* loadGranthas effect: loadGrantha(available[0].id) resolved; the new Map
\* replaces the one in the state
FirstGranthaLoaded ==
    /\ homePc = "loadingFirst"
    /\ granthaDataMap' = { granthas[1] }
    /\ currentGrantha' = granthas[1]
    /\ homePc' = "ready"
    /\ loading' = FALSE
    /\ UNCHANGED <<locationHash, historyLength, selectedCommentaries, state,
                   granthas, loadsInFlight, pendingHashChanges, openedHash,
                   lastHandled, navigations,
                   lastNavigation>>

Load(by, id, c) == [by |-> by, id |-> id, commentaries |-> c]

\* loadCurrentGrantha effect, grantha in the cache: setCurrentGrantha(cached)
ShowCachedGrantha ==
    /\ homePc # "unmounted"
    /\ Len(granthas) > 0
    /\ currentGrantha # state.granthaId
    /\ state.granthaId \in granthaDataMap
    /\ currentGrantha' = state.granthaId
    /\ UNCHANGED <<loading, locationHash, historyLength, selectedCommentaries, state,
                   granthas, granthaDataMap, homePc, loadsInFlight,
                   pendingHashChanges, openedHash, lastHandled, navigations,
                   lastNavigation>>

\* loadCurrentGrantha effect, grantha not in the cache: loadGrantha(granthaId)
LoadCurrentGrantha ==
    /\ homePc # "unmounted"
    /\ Len(granthas) > 0
    /\ currentGrantha # state.granthaId
    /\ state.granthaId \notin granthaDataMap
    /\ Load("effect", state.granthaId, << >>) \notin loadsInFlight
    /\ loadsInFlight' = loadsInFlight \cup { Load("effect", state.granthaId, << >>) }
    /\ loading' = TRUE
    /\ UNCHANGED <<locationHash, historyLength, selectedCommentaries, state,
                   granthas, granthaDataMap, currentGrantha, homePc,
                   pendingHashChanges, openedHash, lastHandled, navigations,
                   lastNavigation>>

\* ... its loadGrantha resolved: the grantha is added to the map and shown
CurrentGranthaLoaded(l) ==
    /\ l \in loadsInFlight
    /\ l.by = "effect"
    /\ loadsInFlight' = loadsInFlight \ { l }
    /\ granthaDataMap' = granthaDataMap \cup { l.id }
    /\ currentGrantha' = l.id
    /\ loading' = FALSE
    /\ UNCHANGED <<locationHash, historyLength, selectedCommentaries, state,
                   granthas, homePc, pendingHashChanges, openedHash,
                   lastHandled, navigations,
                   lastNavigation>>

\* ... its loadGrantha rejected: the catch logs the error
CurrentGranthaFailed(l) ==
    /\ l \in loadsInFlight
    /\ l.by = "effect"
    /\ loadsInFlight' = loadsInFlight \ { l }
    /\ loading' = FALSE
    /\ UNCHANGED <<locationHash, historyLength, selectedCommentaries, state,
                   granthas, granthaDataMap, currentGrantha, homePc,
                   pendingHashChanges, openedHash, lastHandled, navigations,
                   lastNavigation>>

\* if (loading || !currentGrantha) return <Loading/>: else the panels are rendered
PanelsShown ==
    /\ ~ loading
    /\ currentGrantha # << >>

\* handleGranthaChange(newGranthaId) from the selector, a <select> whose
\* value is the grantha shown: onChange comes with another id only
handleGranthaChange(newGranthaId) ==
    /\ PanelsShown
    /\ newGranthaId # currentGrantha
    /\ navigations < MaxNavigations
    /\ navigations' = navigations + 1
    /\ lastNavigation' = Navigation("selector", newGranthaId)
    /\ IF newGranthaId \in granthaDataMap
       THEN /\ updateHash(newGranthaId, getFirstVerseRef(NavGrantha(newGranthaId)),
                          state.commentaries)
            /\ UNCHANGED loadsInFlight
       ELSE /\ loadsInFlight' = loadsInFlight
                 \cup { Load("selector", newGranthaId, state.commentaries) }
            /\ UNCHANGED <<locationHash, historyLength, pendingHashChanges>>
    /\ UNCHANGED <<loading, selectedCommentaries, state, granthas, granthaDataMap,
                   currentGrantha, homePc, openedHash, lastHandled>>

\* ... after its await loadGrantha(newGranthaId): the grantha is added to the
\* map and the hash updated with the commentaries of the render of the click
SelectedGranthaLoaded(l) ==
    /\ l \in loadsInFlight
    /\ l.by = "selector"
    /\ loadsInFlight' = loadsInFlight \ { l }
    /\ granthaDataMap' = granthaDataMap \cup { l.id }
    /\ updateHash(l.id, getFirstVerseRef(NavGrantha(l.id)), l.commentaries)
    /\ UNCHANGED <<loading, selectedCommentaries, state, granthas, currentGrantha,
                   homePc, openedHash, lastHandled, navigations,
                   lastNavigation>>

\* handleVerseSelect(ref) from the sidebar or the text
handleVerseSelect(ref) ==
    /\ PanelsShown
    /\ navigations < MaxNavigations
    /\ navigations' = navigations + 1
    /\ lastNavigation' = Navigation("verse", state.granthaId)
    /\ updateHash(state.granthaId, ref, state.commentaries)
    /\ UNCHANGED <<loading, selectedCommentaries, state, granthas, granthaDataMap,
                   currentGrantha, homePc, loadsInFlight, openedHash,
                   lastHandled>>

\* ReferenceLink handleClick on a reference that is in the library:
\* updateHash(reference.granthaId, reference.path, [])
handleClick(reference) ==
    /\ PanelsShown
    /\ navigations < MaxNavigations
    /\ navigations' = navigations + 1
    /\ lastNavigation' = Navigation("link", reference.granthaId)
    /\ updateHash(reference.granthaId, reference.path, << >>)
    /\ UNCHANGED <<loading, selectedCommentaries, state, granthas, granthaDataMap,
                   currentGrantha, homePc, loadsInFlight, openedHash,
                   lastHandled>>

\* the user edits the hash in the address bar or follows a link to it
UserEditsHash(h) ==
    /\ homePc # "unmounted"
    /\ navigations < MaxNavigations
    /\ navigations' = navigations + 1
    /\ lastNavigation' = Navigation("edit", << >>)
    /\ h # locationHash
    /\ locationHash' = h
    /\ historyLength' = historyLength + 1
    /\ pendingHashChanges' = pendingHashChanges + 1
    /\ UNCHANGED <<loading, selectedCommentaries, state, granthas, granthaDataMap,
                   currentGrantha, homePc, loadsInFlight, openedHash,
                   lastHandled>>

(***************************************************************************)
(* app/page.tsx with useGranthaLoader: Home selecting a grantha            *)
(***************************************************************************)
\* getFirstMainPassageRef(grantha): the first main passage, the prefatory
\* material skipped
getFirstMainPassageRef(grantha) ==
    IF Len(grantha.passages) > 0 THEN grantha.passages[1].ref ELSE << "1" >>

\* the grantha-change effect jumps: verseRef is the default "1"
\* (isDefaultVerseRef || (granthaChanged && verseRef === "1")) and it is not
\* the first main passage already
ShouldJumpUnlessDefault(verseRef, firstMainRef) ==
    verseRef # << "1" >> /\ verseRef # firstMainRef
ShouldJump(verseRef, firstMainRef) ==
    verseRef = << "1" >> /\ verseRef # firstMainRef

\* data of useQuery(["grantha", granthaId]): the grantha of the key when it
\* is in the query cache, undefined while it is being fetched
QueryData(granthaId, cache) == IF granthaId \in cache THEN granthaId ELSE << >>

\* the hook's hashchange listener, and the render it causes: useGranthaLoader
\* starts the query of a grantha not in the cache, and the grantha-change
\* effect runs when granthaId or currentGrantha changed
hashChanged ==
    /\ pendingHashChanges > 0
    /\ LET p == parseHash(locationHash)
           st == IF p.ok THEN StateOf(p.granthaId, p.verseRef, p.commentaries)
                 ELSE state
           shown == QueryData(st.granthaId, granthaDataMap)
           firstMainRef == getFirstMainPassageRef(NavGrantha(shown))
           newHash == buildHash(StateOf(st.granthaId, firstMainRef, st.commentaries))
           jump == /\ st.granthaId # state.granthaId \/ shown # currentGrantha
                   /\ shown # << >>
                   /\ ShouldJump(st.verseRef, firstMainRef)
                   /\ locationHash # newHash
       IN  /\ state' = st
           /\ currentGrantha' = shown
           /\ loadsInFlight' =
                 IF shown = << >>
                 THEN loadsInFlight \cup { Load("query", st.granthaId, << >>) }
                 ELSE loadsInFlight
           /\ IF jump
              THEN /\ locationHash' = newHash
                   /\ historyLength' = historyLength + 1
                   /\ pendingHashChanges' = pendingHashChanges
              ELSE /\ locationHash' = IF p.ok THEN locationHash ELSE buildHash(state)
                   /\ pendingHashChanges' = pendingHashChanges - 1
                   /\ UNCHANGED historyLength
    /\ UNCHANGED <<loading, selectedCommentaries, granthas, granthaDataMap,
                   homePc, openedHash, lastHandled, navigations, lastNavigation>>

\* the query of useGranthaLoader resolved: the grantha enters the cache; if
\* it is the one of the current key, it becomes currentGrantha and the
\* grantha-change effect runs
granthaQueryResolved(l) ==
    /\ l \in loadsInFlight
    /\ l.by = "query"
    /\ loadsInFlight' = loadsInFlight \ { l }
    /\ granthaDataMap' = granthaDataMap \cup { l.id }
    /\ IF l.id = state.granthaId
       THEN /\ currentGrantha' = l.id
            /\ LET firstMainRef == getFirstMainPassageRef(NavGrantha(l.id))
               IN  IF ShouldJump(state.verseRef, firstMainRef)
                   THEN updateHash(state.granthaId, firstMainRef, state.commentaries)
                   ELSE UNCHANGED <<locationHash, historyLength, pendingHashChanges>>
       ELSE UNCHANGED <<currentGrantha, locationHash, historyLength,
                        pendingHashChanges>>
    /\ UNCHANGED <<loading, selectedCommentaries, state, granthas, homePc,
                   openedHash, lastHandled, navigations, lastNavigation>>

\* handleGranthaChange(newGranthaId) of this Home: the verse ref is set to
\* "1", which makes the grantha-change effect jump to the first main passage
handleGranthaChangeToDefault(newGranthaId) ==
    /\ currentGrantha # << >>
    /\ newGranthaId # currentGrantha
    /\ navigations < MaxNavigations
    /\ navigations' = navigations + 1
    /\ lastNavigation' = Navigation("selector", newGranthaId)
    /\ updateHash(newGranthaId, << "1" >>, state.commentaries)
    /\ UNCHANGED <<loading, selectedCommentaries, state, granthas, granthaDataMap,
                   currentGrantha, homePc, loadsInFlight, openedHash,
                   lastHandled>>

(***************************************************************************)
(* Requests for a grantha: useGrantha (React Query) and getPassagePreview  *)
(***************************************************************************)
\* a component renders useGrantha(granthaId): a settled query serves it, a
\* query in flight under the same key is shared, otherwise queryFn calls
\* loadGrantha, which answers from granthaCache or goes to the network
useGranthaRendered(granthaId) ==
    /\ navigations < MaxNavigations
    /\ navigations' = navigations + 1
    /\ lastNavigation' = Navigation("useGrantha", granthaId)
    /\ IF granthaId \in granthaDataMap \/ Load("query", granthaId, << >>) \in loadsInFlight
       THEN UNCHANGED <<granthaDataMap, loadsInFlight>>
       ELSE IF granthaId \in DOMAIN granthaCache
       THEN /\ granthaDataMap' = granthaDataMap \cup { granthaId }
            /\ UNCHANGED loadsInFlight
       ELSE /\ loadsInFlight' = loadsInFlight \cup { Load("query", granthaId, << >>) }
            /\ UNCHANGED granthaDataMap
    /\ UNCHANGED <<locationHash, historyLength, selectedCommentaries, state,
                   granthas, currentGrantha, loading, homePc,
                   pendingHashChanges, openedHash, lastHandled>>
    /\ UNCHANGED <<server, granthaCache, loadPc, loadId, fetchState,
                   allPartContents, arrival, loadResult>>

\* handleMouseEnter of a reference link: getPassagePreview calls loadGrantha
\* itself; only granthaCache is consulted before the fetch.  The third field
\* of the Load record tells the calls apart.
handleMouseEnter(reference) ==
    /\ navigations < MaxNavigations
    /\ navigations' = navigations + 1
    /\ lastNavigation' = Navigation("preview", reference.granthaId)
    /\ IF reference.granthaId \in DOMAIN granthaCache
       THEN UNCHANGED loadsInFlight
       ELSE loadsInFlight' =
               loadsInFlight \cup { Load("preview", reference.granthaId, << navigations >>) }
    /\ UNCHANGED <<locationHash, historyLength, selectedCommentaries, state,
                   granthas, granthaDataMap, currentGrantha, loading, homePc,
                   pendingHashChanges, openedHash, lastHandled>>
    /\ UNCHANGED <<server, granthaCache, loadPc, loadId, fetchState,
                   allPartContents, arrival, loadResult>>

\* a loadGrantha call that went to the network returns: granthaCache.set,
\* and the query, if it was the caller, settles
loadGranthaFulfilled(l) ==
    /\ l \in loadsInFlight
    /\ l.by \in { "query", "preview" }
    /\ loadsInFlight' = loadsInFlight \ { l }
    /\ granthaCache' = [x \in DOMAIN granthaCache \cup { l.id } |->
                           IF x = l.id THEN SingleFile ELSE granthaCache[x]]
    /\ granthaDataMap' = IF l.by = "query" THEN granthaDataMap \cup { l.id }
                         ELSE granthaDataMap
    /\ UNCHANGED <<locationHash, historyLength, selectedCommentaries, state,
                   granthas, currentGrantha, loading, homePc,
                   pendingHashChanges, openedHash, lastHandled, navigations,
                   lastNavigation>>
    /\ UNCHANGED <<server, loadPc, loadId, fetchState, allPartContents, arrival,
                   loadResult>>

\* the fetch failed: loadGrantha rethrows, nothing is cached
loadGranthaRejected(l) ==
    /\ l \in loadsInFlight
    /\ l.by \in { "query", "preview" }
    /\ loadsInFlight' = loadsInFlight \ { l }
    /\ UNCHANGED <<locationHash, historyLength, selectedCommentaries, state,
                   granthas, granthaDataMap, currentGrantha, loading, homePc,
                   pendingHashChanges, openedHash, lastHandled, navigations,
                   lastNavigation>>
    /\ UNCHANGED asmVars

NavIdle ==
    /\ locationHash = << >>
    /\ historyLength = 1
    /\ selectedCommentaries = << >>
    /\ state = NoState
    /\ granthas = << >>
    /\ granthaDataMap = {}
    /\ currentGrantha = << >>
    /\ loading = TRUE
    /\ homePc = "unmounted"
    /\ loadsInFlight = {}
    /\ pendingHashChanges = 0
    /\ openedHash = << >>
    /\ lastHandled = NotHandled
    /\ navigations = 0
    /\ lastNavigation = NoNavigation

UiIdle ==
    /\ queryData = NoData
    /\ heap = << >>
    /\ handedOut = << >>
    /\ isLoadingPart = FALSE
    /\ inFlight = << >>
    /\ nCalls = 0
    /\ loaderVersion = 1

RefIdle ==
    /\ text = << >>
    /\ abbreviationMap = << >>
    /\ lastIndex = 0
    /\ references = << >>
    /\ refPc = "idle"
    /\ previewRef = NoReference
    /\ previewResult = "none"
    /\ threw = FALSE
    /\ calls = << >>

InitAsm ==
    /\ server \in Servers
    /\ granthaCache = << >>
    /\ loadPc = "idle"
    /\ loadId = ChandogyaId
    /\ fetchState = NoFetches
    /\ allPartContents = NoFetches
    /\ arrival = << >>
    /\ loadResult = NoGrantha
    /\ RefIdle
    /\ ConvIdle
    /\ HierIdle
    /\ ValIdle
    /\ UiIdle
    /\ NavIdle

NextAsm ==
    \/ (\E g \in GranthaIds : LoadStart(g)) /\ UNCHANGED <<refVars, convVars, hierVars, valVars, uiVars, navVars>>
    \/ LoaderStep /\ UNCHANGED <<refVars, convVars, hierVars, valVars, uiVars, navVars>>
    \/ LoadReturn /\ UNCHANGED <<refVars, convVars, hierVars, valVars, uiVars, navVars>>

SpecAsm == InitAsm /\ [][NextAsm]_vars

\* servers used with the resolver: two parts, a single file, a failing host
RefServers ==
    { [kind |-> "multi", parts |-> <<"part1.json", "part2.json">>, commentaries |-> << >>],
      [kind |-> "single", parts |-> << >>, commentaries |-> << >>],
      [kind |-> "error", parts |-> << >>, commentaries |-> << >>] }

InitRef ==
    /\ server \in RefServers
    /\ granthaCache = << >>
    /\ loadPc = "idle"
    /\ loadId = ChandogyaId
    /\ fetchState = NoFetches
    /\ allPartContents = NoFetches
    /\ arrival = << >>
    /\ loadResult = NoGrantha
    /\ text \in Texts
    /\ abbreviationMap = EmptyAbbreviationMap
    /\ lastIndex = 0
    /\ references = << >>
    /\ refPc = "idle"
    /\ previewRef = NoReference
    /\ previewResult = "none"
    /\ threw = FALSE
    /\ calls = << >>
    /\ ConvIdle
    /\ HierIdle
    /\ ValIdle
    /\ UiIdle
    /\ NavIdle

NextRef ==
    \/ MetaLoaded /\ UNCHANGED <<asmVars, convVars, hierVars, valVars, uiVars, navVars>>
    \/ CallParseReferences /\ UNCHANGED <<asmVars, convVars, hierVars, valVars, uiVars, navVars>>
    \/ (\E i \in 1..MaxFrags : PreviewStart(i)) /\ UNCHANGED <<convVars, hierVars, valVars, uiVars, navVars>>
    \/ LoaderStep /\ refPc = "awaitLoad" /\ UNCHANGED <<refVars, convVars, hierVars, valVars, uiVars, navVars>>
    \/ PreviewLoaded /\ UNCHANGED <<convVars, hierVars, valVars, uiVars, navVars>>
    \/ PreviewLoadFailed /\ UNCHANGED <<convVars, hierVars, valVars, uiVars, navVars>>
    \/ LoadReturn /\ refPc = "previewDone" /\ UNCHANGED <<refVars, convVars, hierVars, valVars, uiVars, navVars>>

SpecRef == InitRef /\ [][NextRef]_vars

\* the panel with the abbreviation map fixed before the first render
InitDet ==
    /\ server = [kind |-> "error", parts |-> << >>, commentaries |-> << >>]
    /\ granthaCache = << >>
    /\ loadPc = "idle"
    /\ loadId = ChandogyaId
    /\ fetchState = NoFetches
    /\ allPartContents = NoFetches
    /\ arrival = << >>
    /\ loadResult = NoGrantha
    /\ text = << >>
    /\ abbreviationMap \in {EmptyAbbreviationMap, createAbbreviationMap(GranthasMeta)}
    /\ lastIndex = 0
    /\ references = << >>
    /\ refPc = "idle"
    /\ previewRef = NoReference
    /\ previewResult = "none"
    /\ threw = FALSE
    /\ calls = << >>
    /\ ConvIdle
    /\ HierIdle
    /\ ValIdle
    /\ UiIdle
    /\ NavIdle

NextDet ==
    (\E t \in PanelTexts : RenderCommentary(t)) /\ UNCHANGED <<asmVars, convVars, hierVars, valVars, uiVars, navVars>>

SpecDet == InitDet /\ [][NextDet]_vars

InitHier ==
    /\ server = [kind |-> "error", parts |-> << >>, commentaries |-> << >>]
    /\ granthaCache = << >>
    /\ loadPc = "idle"
    /\ loadId = ChandogyaId
    /\ fetchState = NoFetches
    /\ allPartContents = NoFetches
    /\ arrival = << >>
    /\ loadResult = NoGrantha
    /\ RefIdle
    /\ ConvIdle
    /\ \E d \in 0..MaxTreeDepth, branchy \in BOOLEAN :
          \E refs \in RefLists(d) : data = GranthaOf(d, branchy, refs)
    /\ hierarchy = NoHierarchy
    /\ hierPc = "start"
    /\ ValIdle
    /\ UiIdle
    /\ NavIdle

NextHier == BuildHierarchy /\ UNCHANGED <<asmVars, refVars, convVars, valVars, uiVars, navVars>>

SpecHier == InitHier /\ [][NextHier]_vars

InitVal ==
    /\ server = [kind |-> "error", parts |-> << >>, commentaries |-> << >>]
    /\ granthaCache = << >>
    /\ loadPc = "idle"
    /\ loadId = ChandogyaId
    /\ fetchState = NoFetches
    /\ allPartContents = NoFetches
    /\ arrival = << >>
    /\ loadResult = NoGrantha
    /\ RefIdle
    /\ ConvIdle
    /\ HierIdle
    /\ files \in Batches
    /\ fileIdx = 0
    /\ allValid = TRUE
    /\ errors = << >>
    /\ expectedDepth = 0
    /\ valPc = "running"
    /\ UiIdle
    /\ NavIdle

NextVal ==
    \/ ValidateFile /\ UNCHANGED <<asmVars, refVars, convVars, hierVars, uiVars, navVars>>
    \/ ParseThrows /\ UNCHANGED <<asmVars, refVars, convVars, hierVars, uiVars, navVars>>
    \/ StructureCheckThrows /\ UNCHANGED <<asmVars, refVars, convVars, hierVars, uiVars, navVars>>
    \/ ValidationDone /\ UNCHANGED <<asmVars, refVars, convVars, hierVars, uiVars, navVars>>

SpecVal == InitVal /\ [][NextVal]_vars

\* the page after loadGrantha resolved with the part of the first render
InitUi ==
    /\ server = [kind |-> "error", parts |-> << >>, commentaries |-> << >>]
    /\ granthaCache = << >>
    /\ loadPc = "idle"
    /\ loadId = ChandogyaId
    /\ fetchState = NoFetches
    /\ allPartContents = NoFetches
    /\ arrival = << >>
    /\ loadResult = NoGrantha
    /\ RefIdle
    /\ ConvIdle
    /\ HierIdle
    /\ ValIdle
    /\ NavIdle
    /\ \E declared \in { << "c1" >>, << "c1", "c2" >>, << >> }, first \in { "1", "2" } :
          /\ queryData = InitialGrantha(declared, first)
          /\ heap = InitialHeap(declared, first)
          /\ handedOut = << Snapshot(queryData, heap) >>
    /\ isLoadingPart = FALSE
    /\ inFlight = << >>
    /\ nCalls = 0
    /\ loaderVersion \in { 1, 2 }

NextUi ==
    \/ (\E partId \in RequestedParts : LoadPartCall(partId))
          /\ UNCHANGED <<asmVars, refVars, convVars, hierVars, valVars, navVars>>
    \/ (\E k \in 1..MaxLoadCalls : LoadPartFetched(k))
          /\ UNCHANGED <<asmVars, refVars, convVars, hierVars, valVars, navVars>>
    \/ (\E k \in 1..MaxLoadCalls : LoadPartFailed(k))
          /\ UNCHANGED <<asmVars, refVars, convVars, hierVars, valVars, navVars>>
    \/ EndOfTextReached
          /\ UNCHANGED <<asmVars, refVars, convVars, hierVars, valVars, navVars>>
    \/ (\E ref \in { Ref("1", "1"), Ref("2", "1"), Ref("3", "1") } : PreviewCached(ref))
          /\ UNCHANGED <<asmVars, convVars, hierVars, valVars, uiVars, navVars>>

SpecUi == InitUi /\ [][NextUi]_vars

\* the page is opened with some URL and some stored commentary selection
InitNav ==
    /\ server = [kind |-> "error", parts |-> << >>, commentaries |-> << >>]
    /\ granthaCache = << >>
    /\ loadPc = "idle"
    /\ loadId = ChandogyaId
    /\ fetchState = NoFetches
    /\ allPartContents = NoFetches
    /\ arrival = << >>
    /\ loadResult = NoGrantha
    /\ RefIdle
    /\ ConvIdle
    /\ HierIdle
    /\ ValIdle
    /\ UiIdle
    /\ locationHash \in OpenHashes
    /\ openedHash = locationHash
    /\ selectedCommentaries \in SavedCommentaries
    /\ historyLength = 1
    /\ state = NoState
    /\ granthas = << >>
    /\ granthaDataMap = {}
    /\ currentGrantha = << >>
    /\ loading = TRUE
    /\ homePc = "unmounted"
    /\ loadsInFlight = {}
    /\ pendingHashChanges = 0
    /\ lastHandled = NotHandled
    /\ navigations = 0
    /\ lastNavigation = NoNavigation

NextNav ==
    \/ Mount /\ UNCHANGED <<asmVars, refVars, convVars, hierVars, valVars, uiVars>>
    \/ handleHashChange /\ UNCHANGED <<asmVars, refVars, convVars, hierVars, valVars, uiVars>>
    \/ GranthasListed /\ UNCHANGED <<asmVars, refVars, convVars, hierVars, valVars, uiVars>>
    \/ FirstGranthaLoaded /\ UNCHANGED <<asmVars, refVars, convVars, hierVars, valVars, uiVars>>
    \/ ShowCachedGrantha /\ UNCHANGED <<asmVars, refVars, convVars, hierVars, valVars, uiVars>>
    \/ LoadCurrentGrantha /\ UNCHANGED <<asmVars, refVars, convVars, hierVars, valVars, uiVars>>
    \/ (\E l \in loadsInFlight : CurrentGranthaLoaded(l))
          /\ UNCHANGED <<asmVars, refVars, convVars, hierVars, valVars, uiVars>>
    \/ (\E l \in loadsInFlight : CurrentGranthaFailed(l))
          /\ UNCHANGED <<asmVars, refVars, convVars, hierVars, valVars, uiVars>>
    \/ (\E i \in 1..Len(granthas) : handleGranthaChange(granthas[i]))
          /\ UNCHANGED <<asmVars, refVars, convVars, hierVars, valVars, uiVars>>
    \/ (\E l \in loadsInFlight : SelectedGranthaLoaded(l))
          /\ UNCHANGED <<asmVars, refVars, convVars, hierVars, valVars, uiVars>>
    \/ (\E ref \in SidebarRefs(currentGrantha) : handleVerseSelect(ref))
          /\ UNCHANGED <<asmVars, refVars, convVars, hierVars, valVars, uiVars>>
    \/ (\E reference \in LibraryReferences : handleClick(reference))
          /\ UNCHANGED <<asmVars, refVars, convVars, hierVars, valVars, uiVars>>
    \/ (\E h \in TypedHashes : UserEditsHash(h))
          /\ UNCHANGED <<asmVars, refVars, convVars, hierVars, valVars, uiVars>>

SpecNav == InitNav /\ [][NextNav]_vars

\* the hook on its own, under a caller that passes the library and the data
\* it has at the first render (TECHNICAL-DESIGN.md: useVerseHash(
\* availableGranthas, default, granthaDataMap))
InitHook ==
    /\ server = [kind |-> "error", parts |-> << >>, commentaries |-> << >>]
    /\ granthaCache = << >>
    /\ loadPc = "idle"
    /\ loadId = ChandogyaId
    /\ fetchState = NoFetches
    /\ allPartContents = NoFetches
    /\ arrival = << >>
    /\ loadResult = NoGrantha
    /\ RefIdle
    /\ ConvIdle
    /\ HierIdle
    /\ ValIdle
    /\ UiIdle
    /\ locationHash \in OpenHashes
    /\ openedHash = locationHash
    /\ selectedCommentaries \in SavedCommentaries
    /\ historyLength = 1
    /\ state = NoState
    /\ granthas = AvailableGranthas
    /\ granthaDataMap \in SUBSET { IsavasyaId, KenaId }
    /\ currentGrantha = << >>
    /\ loading = TRUE
    /\ homePc = "unmounted"
    /\ loadsInFlight = {}
    /\ pendingHashChanges = 0
    /\ lastHandled = NotHandled
    /\ navigations = 0
    /\ lastNavigation = NoNavigation

NextHook ==
    \/ Mount /\ UNCHANGED <<asmVars, refVars, convVars, hierVars, valVars, uiVars>>
    \/ handleHashChange /\ UNCHANGED <<asmVars, refVars, convVars, hierVars, valVars, uiVars>>
    \/ (\E h \in TypedHashes : UserEditsHash(h))
          /\ UNCHANGED <<asmVars, refVars, convVars, hierVars, valVars, uiVars>>

SpecHook == InitHook /\ [][NextHook]_vars

\* the page is shown; components and reference links ask for granthas
InitReq ==
    /\ server = [kind |-> "single", parts |-> << >>, commentaries |-> << >>]
    /\ granthaCache = << >>
    /\ loadPc = "idle"
    /\ loadId = ChandogyaId
    /\ fetchState = NoFetches
    /\ allPartContents = NoFetches
    /\ arrival = << >>
    /\ loadResult = NoGrantha
    /\ RefIdle
    /\ ConvIdle
    /\ HierIdle
    /\ ValIdle
    /\ UiIdle
    /\ NavIdle

NextReq ==
    \/ (\E g \in { IsavasyaId, KenaId, GitaId } : useGranthaRendered(g))
          /\ UNCHANGED <<refVars, convVars, hierVars, valVars, uiVars>>
    \/ (\E reference \in LibraryReferences : handleMouseEnter(reference))
          /\ UNCHANGED <<refVars, convVars, hierVars, valVars, uiVars>>
    \/ (\E l \in loadsInFlight : loadGranthaFulfilled(l))
          /\ UNCHANGED <<refVars, convVars, hierVars, valVars, uiVars>>
    \/ (\E l \in loadsInFlight : loadGranthaRejected(l))
          /\ UNCHANGED <<refVars, convVars, hierVars, valVars, uiVars>>

SpecReq == InitReq /\ [][NextReq]_vars

\* Home shows a grantha at one of its verses, the list of granthas loaded
InitSel ==
    /\ server = [kind |-> "error", parts |-> << >>, commentaries |-> << >>]
    /\ granthaCache = << >>
    /\ loadPc = "idle"
    /\ loadId = ChandogyaId
    /\ fetchState = NoFetches
    /\ allPartContents = NoFetches
    /\ arrival = << >>
    /\ loadResult = NoGrantha
    /\ RefIdle
    /\ ConvIdle
    /\ HierIdle
    /\ ValIdle
    /\ UiIdle
    /\ \E g \in { IsavasyaId, KenaId }, c \in SavedCommentaries :
          \E v \in SidebarRefs(g) :
             /\ state = StateOf(g, v, c)
             /\ locationHash = buildHash(state)
             /\ currentGrantha = g
             /\ granthaDataMap \in { { g }, { IsavasyaId, KenaId } }
    /\ openedHash = locationHash
    /\ selectedCommentaries = state.commentaries
    /\ historyLength = 1
    /\ granthas = AvailableGranthas
    /\ loading = FALSE
    /\ homePc = "ready"
    /\ loadsInFlight = {}
    /\ pendingHashChanges = 0
    /\ lastHandled = NotHandled
    /\ navigations = 0
    /\ lastNavigation = NoNavigation

SelHashChanged ==
    hashChanged /\ UNCHANGED <<asmVars, refVars, convVars, hierVars, valVars, uiVars>>

SelQueryResolved ==
    (\E l \in loadsInFlight : granthaQueryResolved(l))
        /\ UNCHANGED <<asmVars, refVars, convVars, hierVars, valVars, uiVars>>

NextSel ==
    \/ SelHashChanged
    \/ SelQueryResolved
    \/ (\E i \in 1..Len(granthas) : handleGranthaChangeToDefault(granthas[i]))
          /\ UNCHANGED <<asmVars, refVars, convVars, hierVars, valVars, uiVars>>
    \/ (\E ref \in SidebarRefs(currentGrantha) : handleVerseSelect(ref))
          /\ UNCHANGED <<asmVars, refVars, convVars, hierVars, valVars, uiVars>>
    \/ (\E reference \in LibraryReferences : handleClick(reference))
          /\ UNCHANGED <<asmVars, refVars, convVars, hierVars, valVars, uiVars>>

SpecSel == InitSel /\ [][NextSel]_vars

\* the query of a grantha of the library resolves, and the browser dispatches
\* every hashchange event: weak fairness of SelHashChanged, written with its
\* enabling condition (an event is pending) in place of ENABLED
FairSpecSel ==
    /\ SpecSel
    /\ WF_vars(SelQueryResolved)
    /\ ([]<>(pendingHashChanges = 0) \/ []<><<SelHashChanged>>_vars)

InitConv ==
    /\ server = [kind |-> "error", parts |-> << >>, commentaries |-> << >>]
    /\ granthaCache = << >>
    /\ loadPc = "idle"
    /\ loadId = ChandogyaId
    /\ fetchState = NoFetches
    /\ allPartContents = NoFetches
    /\ arrival = << >>
    /\ loadResult = NoGrantha
    /\ RefIdle
    /\ doc \in Documents
    /\ opts \in Options
    /\ markup = << >>
    /\ convPc = "start"
    /\ edits = << >>
    /\ parsed = NoDocument
    /\ jsonOut = NoDocument
    /\ exitCode = 0
    /\ HierIdle
    /\ ValIdle
    /\ UiIdle
    /\ NavIdle

NextConv ==
    \/ Export /\ UNCHANGED <<asmVars, refVars, hierVars, valVars, uiVars, navVars>>
    \/ (\E i \in 1..Len(markup) : InsertBlank(i)) /\ UNCHANGED <<asmVars, refVars, hierVars, valVars, uiVars, navVars>>
    \/ (\E i \in 1..Len(markup) : RemoveBlank(i)) /\ UNCHANGED <<asmVars, refVars, hierVars, valVars, uiVars, navVars>>
    \/ (\E i \in 1..Len(markup) : Indent(i)) /\ UNCHANGED <<asmVars, refVars, hierVars, valVars, uiVars, navVars>>
    \/ (\E i \in 1..Len(markup) : Unindent(i)) /\ UNCHANGED <<asmVars, refVars, hierVars, valVars, uiVars, navVars>>
    \/ (\E i \in 1..Len(markup) : CorruptChar(i)) /\ UNCHANGED <<asmVars, refVars, hierVars, valVars, uiVars, navVars>>
    \/ ImportParse /\ UNCHANGED <<asmVars, refVars, hierVars, valVars, uiVars, navVars>>
    \/ ImportWrite /\ UNCHANGED <<asmVars, refVars, hierVars, valVars, uiVars, navVars>>
    \/ ImportAbort /\ UNCHANGED <<asmVars, refVars, hierVars, valVars, uiVars, navVars>>

SpecConv == InitConv /\ [][NextConv]_vars

(***************************************************************************)
(* Multi-part assembly: claims C4 - C7                                     *)
(***************************************************************************)
Refs(ps) == [i \in 1..Len(ps) |-> ps[i].ref]

\* the call in flight resolved with a document assembled from parts
AssembledNow ==
    /\ loadPc = "done"
    /\ loadResult # NoGrantha
    /\ Len(loadResult.parts) > 0

\* refs of one passage collection over the parts, in manifest order
ManifestOrderRefs(parts, field) ==
    Flatten([i \in 1..Len(parts) |->
                Refs(CASE field = "prefatory" -> PartFile(parts[i]).prefatory_material
                       [] field = "main" -> PartFile(parts[i]).passages
                       [] field = "concluding" -> PartFile(parts[i]).concluding_material)])

InManifestOrder(d) ==
    /\ Refs(d.prefatory_material) = ManifestOrderRefs(d.parts, "prefatory")
    /\ Refs(d.passages) = ManifestOrderRefs(d.parts, "main")
    /\ Refs(d.concluding_material) = ManifestOrderRefs(d.parts, "concluding")

\* C4: the assembled prefatory, main and concluding lists are the
\* concatenation of the parts' lists in manifest order, whatever order the
\* part fetches were fulfilled in.
C4_ManifestOrder ==
    /\ AssembledNow => InManifestOrder(loadResult)
    /\ \A g \in DOMAIN granthaCache :
          Len(granthaCache[g].parts) > 0 => InManifestOrder(granthaCache[g])

\* an assembly whose fetches were fulfilled in an order other than the
\* manifest's, for a manifest that is not in file-name order
C4_Witness ==
    /\ AssembledNow
    /\ server.parts = <<"part2.json", "part1.json", "part3.json">>
    /\ arrival = <<3, 1, 2>>

\* every passage of every part of the manifest is in the document
HasAllParts(d) ==
    \A i \in 1..Len(d.parts) :
        \A k \in 1..Len(PartFile(d.parts[i]).passages) :
            \E q \in 1..Len(d.passages) :
                d.passages[q].ref = PartFile(d.parts[i]).passages[k].ref

\* C5: when any part fails to load the call fails as a whole: it resolves
\* with nothing, and no document lacking a part is returned or cached.
C5_AllOrNothing ==
    /\ (\E i \in DOMAIN fetchState : fetchState[i] = "failed")
          => (loadPc # "done" /\ loadResult = NoGrantha /\ loadId \notin DOMAIN granthaCache)
    /\ loadResult # NoGrantha => HasAllParts(loadResult)
    /\ \A g \in DOMAIN granthaCache : HasAllParts(granthaCache[g])

\* a call rejected after one part arrived and another failed
C5_Witness ==
    /\ loadPc = "rejected"
    /\ \E i \in DOMAIN fetchState : fetchState[i] = "failed"
    /\ \E i \in DOMAIN fetchState : fetchState[i] = "ok"

\* the passages given for commentary id in one part
RECURSIVE PassagesFor(_, _)
PassagesFor(partCs, id) ==
    IF partCs = <<>> THEN <<>>
    ELSE (IF Head(partCs).commentary_id = id THEN Head(partCs).passages ELSE <<>>)
         \o PassagesFor(Tail(partCs), id)

CommentaryIds == {"c1", "c2"}

MergedByConcatenation(d, meta) ==
    \A id \in CommentaryIds :
        LET given == Flatten([i \in 1..Len(d.parts) |->
                                 PassagesFor(PartFile(d.parts[i]).commentaries, id)])
            entries == { j \in 1..Len(d.commentaries) : d.commentaries[j].commentary_id = id }
            declared == \E j \in 1..Len(meta) : meta[j].commentary_id = id
        IN  /\ Cardinality(entries) <= 1
            /\ (given # <<>> \/ declared) => Cardinality(entries) = 1
            /\ \A j \in entries : Refs(d.commentaries[j].passages) = Refs(given)

\* C6: after assembly each commentary id has exactly one entry, whose passage
\* list is the concatenation, in part order, of that id's passage lists in
\* every part.
C6_CommentaryConcat ==
    AssembledNow => MergedByConcatenation(loadResult, server.commentaries)

\* an assembly in which one commentary received passages from two parts
C6_Witness ==
    /\ AssembledNow
    /\ \E j \in 1..Len(loadResult.commentaries) :
          Len(loadResult.commentaries[j].passages) >= 2

PassageLists(d) == d.prefatory_material \o d.passages \o d.concluding_material

FromPart(p, f) ==
    \E q \in 1..Len(PassageLists(PartFile(f))) : PassageLists(PartFile(f))[q].ref = p.ref

PassagesTagged(d) ==
    \A k \in 1..Len(PassageLists(d)) :
        LET p == PassageLists(d)[k]
        IN  /\ p.part_num \in 1..Len(d.parts)
            /\ FromPart(p, d.parts[p.part_num])

CommentaryPassagesTagged(d) ==
    \A j \in 1..Len(d.commentaries) :
        \A k \in 1..Len(d.commentaries[j].passages) :
            d.commentaries[j].passages[k].part_num \in 1..Len(d.parts)

\* C7 as stated: every passage and every commentary passage of an assembled
\* document carries the identifier of its part.
C7_Original ==
    AssembledNow => (PassagesTagged(loadResult) /\ CommentaryPassagesTagged(loadResult))

\* C7 as amended: every prefatory, main and concluding passage of an
\* assembled document carries part_num, the 1-based manifest position of the
\* part it was loaded from (commentary passages carry no part identifier).
C7_PassagesTagged ==
    AssembledNow => PassagesTagged(loadResult)

\* an assembly of at least two parts, one of them with commentary passages
C7_Witness ==
    /\ AssembledNow
    /\ Len(loadResult.parts) >= 2
    /\ Len(PassageLists(loadResult)) >= 3
    /\ \E j \in 1..Len(loadResult.commentaries) :
          loadResult.commentaries[j].passages # <<>>

(***************************************************************************)
(* Reference resolution: claims C8 - C10                                   *)
(***************************************************************************)
PreviewStrings ==
    { "Reference not available in this library.",
      "passage.content.sanskrit.devanagari",
      "Passage not found.",
      "Error fetching preview." }

AbbrOf(r) == Split(r.rawRef, "/")[1]

\* C8: reference resolution never raises: parseReferences and the preview
\* lookup complete normally for every text and abbreviation map, an unknown
\* abbreviation yields an external reference, and a preview of an external
\* reference or of a grantha that fails to load yields a message.
C8_NeverThrows ==
    /\ threw = FALSE
    /\ refPc = "previewDone" => previewResult \in PreviewStrings
    /\ \A i \in 1..Len(references) :
          (AbbrOf(references[i]) \notin DOMAIN abbreviationMap
             /\ AbbrOf(references[i]) \notin AvailableGranthaIds)
          => ~isReferenceInLibrary(references[i].granthaId)
    /\ (refPc = "previewDone" /\ ~isReferenceInLibrary(previewRef.granthaId))
          => previewResult = "Reference not available in this library."

\* a text with a malformed link and a link into the library whose grantha
\* failed to load: the preview completed with the error message
C8_Witness ==
    /\ text = EmptyPayload \o HyphenCitation
    /\ refPc = "previewDone"
    /\ loadPc = "rejected"
    /\ previewResult = "Error fetching preview."

\* structureAliases of each grantha's data file
StructureAliases(g) ==
    IF g = TaittiriyaId
    THEN { [alias |-> AliasAnandavalli, level |-> 1, value |-> <<"2">>] }
    ELSE { }


\* every segment of the path is a number or an alias the target's table
\* defines at the level of the segment's position
AliasesAtTheirLevel(r) ==
    LET segs == Split(r.path, ".")
    IN  \A k \in 1..Len(segs) :
            \/ IsNumeric(segs[k])
            \/ \E a \in StructureAliases(r.granthaId) :
                  a.alias = segs[k] /\ a.level = k

\* C9: a structural alias in a path is accepted only when the target's alias
\* table defines it at the level of its position; otherwise no reference
\* with a path is produced for the citation.
C9_AliasLevel ==
    \A i \in 1..Len(references) :
        (isReferenceInLibrary(references[i].granthaId)
           /\ StructureAliases(references[i].granthaId) # { })
        => AliasesAtTheirLevel(references[i])

ChandogyaParsed ==
    /\ refPc # "idle"
    /\ AbbrChandogya \in DOMAIN abbreviationMap
    /\ abbreviationMap[AbbrChandogya] = ChandogyaId

\* C10 as stated: the citation "(<abbr> 1.1.1)" resolves to a reference with
\* document id chandogya-upanishad and path 1.1.1.
C10_Original ==
    (ChandogyaParsed /\ text = UntaggedCitation)
    => \E i \in 1..Len(references) :
          /\ references[i].granthaId = ChandogyaId
          /\ references[i].path = <<"1", ".", "1", ".", "1">>

\* C10 as amended: the link "[<abbr> 1.1.1](ref:<abbr>/1.1.1)" resolves to
\* exactly one reference, with granthaId chandogya-upanishad and path 1.1.1.
C10_TaggedCitation ==
    (ChandogyaParsed /\ text = TaggedCitation)
    => /\ Len(references) = 1
       /\ references[1].granthaId = ChandogyaId
       /\ references[1].path = <<"1", ".", "1", ".", "1">>
       /\ references[1].fullMatch = TaggedCitation

\* the tagged citation parsed with the abbreviation map loaded
C10_Witness ==
    /\ ChandogyaParsed
    /\ text = TaggedCitation
    /\ refPc = "parsed"
    /\ Len(references) = 1

C2_MismatchAbortsWrite ==
    /\ jsonOut # NoDocument =>
          hashDocument(jsonOut) = markup[1].validation_hash
    /\ (/\ convPc \in {"written", "failed"}
        /\ parsed.kind = "document"
        /\ hashDocument(parsed) # parsed.validation_hash) =>
          (jsonOut = NoDocument /\ exitCode # 0 /\ convPc = "failed")

\* a corrupted character made the hashes differ and the run aborted
C2_Witness ==
    /\ convPc = "failed"
    /\ edits = << "CorruptChar" >>
    /\ parsed.kind = "document"
    /\ hashDocument(parsed) # parsed.validation_hash
    /\ jsonOut = NoDocument
    /\ exitCode # 0

\* the hash of the text of each fenced content block of a markdown file
RECURSIVE BlockTexts(_, _, _)
BlockTexts(lines, n, acc) ==
    IF n > Len(lines) THEN << >>
    ELSE IF lines[n].kind = "text" THEN BlockTexts(lines, n + 1, Append(acc, lines[n].chars))
    ELSE IF lines[n].kind = "close"
         THEN << BlockText(acc) >> \o BlockTexts(lines, n + 1, << >>)
    ELSE BlockTexts(lines, n + 1, << >>)

BlockHashes(lines) ==
    LET ts == BlockTexts(lines, 1, << >>)
    IN  [b \in 1..Len(ts) |-> Hash(ts[b])]

WhitespaceOnly == \A e \in 1..Len(edits) : edits[e] \in WhitespaceEdits

\* C3: inserting or removing blank lines, changing indentation, or otherwise
\* rearranging whitespace inside a content block never changes the content
\* hash of that block's text.
C3_WhitespaceStable ==
    (convPc = "exported" /\ WhitespaceOnly) =>
        BlockHashes(markup) = BlockHashes(Serialize(doc, opts))

\* a block whose text was changed by a whitespace edit, with the same hash
C3_Witness ==
    /\ convPc = "exported"
    /\ edits # << >>
    /\ WhitespaceOnly
    /\ BlockTexts(markup, 1, << >>) # BlockTexts(Serialize(doc, opts), 1, << >>)
    /\ BlockHashes(markup) = BlockHashes(Serialize(doc, opts))

(***************************************************************************)
(* Resolver determinism                                                    *)
(***************************************************************************)
\* C11: for a fixed abbreviation map, any two calls of parseReferences on the
\* same text return identical reference lists, whatever other calls happened
\* before or between them.
C11_Deterministic ==
    \A i, j \in 1..Len(calls) :
        calls[i].text = calls[j].text => calls[i].references = calls[j].references

\* the same two-link text parsed twice with a call on another text between
C11_Witness ==
    /\ Len(calls) >= 3
    /\ calls[1].text = TaggedCitation \o HyphenCitation
    /\ calls[2].text # calls[1].text
    /\ calls[3].text = calls[1].text
    /\ Len(calls[1].references) = 2
    /\ calls[3].references = calls[1].references

(***************************************************************************)
(* Hierarchy grouping                                                      *)
(***************************************************************************)
\* the ref segment a group key was formed from
SegmentOfKey(key) == Split(key, " ")[2]

\* the leaf groups below a list of sibling groups, each with its path
RECURSIVE LeafGroups(_, _)
LeafGroups(groups, path) ==
    Flatten([g \in 1..Len(groups) |->
        IF groups[g].leaf
        THEN << [path |-> Append(path, SegmentOfKey(groups[g].level)),
                 passages |-> groups[g].passages] >>
        ELSE LeafGroups(groups[g].children, Append(path, SegmentOfKey(groups[g].level)))])

HasPrefix(ref, path) ==
    LET segs == Split(ref, ".")
    IN  Len(segs) >= Len(path) /\ SubSeq(segs, 1, Len(path)) = path

RECURSIVE PassagesUnder(_, _)
PassagesUnder(ps, path) ==
    IF ps = << >> THEN << >>
    ELSE (IF HasPrefix(Head(ps).ref, path) THEN << Head(ps) >> ELSE << >>)
         \o PassagesUnder(Tail(ps), path)

\* C12: for structure trees of depth 1..4, each leaf group holds exactly the
\* main passages whose leading ref segments equal the group's path, all of
\* them and no others; every passage with enough segments is in a leaf group.
C12_LeafGroupsExact ==
    (hierPc = "grouped" /\ Len(data.structure_levels) > 0) =>
        LET d == getStructureDepth(data.structure_levels)
            leaves == LeafGroups(hierarchy.main, << >>)
        IN  /\ \A g \in 1..Len(leaves) :
                 /\ Len(leaves[g].path) = d
                 /\ leaves[g].passages = PassagesUnder(data.passages, leaves[g].path)
            /\ \A i \in 1..Len(data.passages) :
                 Len(Split(data.passages[i].ref, ".")) >= d =>
                     \E g \in 1..Len(leaves) : HasPrefix(data.passages[i].ref, leaves[g].path)
            /\ \A g, h \in 1..Len(leaves) : leaves[g].path = leaves[h].path => g = h

\* a depth-4 tree grouped into several leaf groups, one holding two passages
C12_Witness ==
    /\ hierPc = "grouped"
    /\ getStructureDepth(data.structure_levels) = 4
    /\ Len(data.passages) = 3
    /\ LET leaves == LeafGroups(hierarchy.main, << >>)
       IN  /\ Len(leaves) = 2
           /\ \E g \in 1..Len(leaves) : Len(leaves[g].passages) = 2

\* the lists of sibling groups at every nesting level, as ref segments
RECURSIVE SiblingLists(_)
SiblingLists(groups) ==
    << [g \in 1..Len(groups) |-> SegmentOfKey(groups[g].level)] >>
    \o Flatten([g \in 1..Len(groups) |->
          IF groups[g].leaf THEN << >> ELSE SiblingLists(groups[g].children)])

\* C13: at every nesting level sibling groups are ordered by the numeric
\* value of their ref segment (10 after 9), not lexicographically.
C13_NumericOrder ==
    (hierPc = "grouped" /\ Len(data.structure_levels) > 0) =>
        LET lists == SiblingLists(hierarchy.main)
        IN  \A l \in 1..Len(lists) : \A i, j \in 1..Len(lists[l]) :
                i < j => ParseDigits(lists[l][i], 0) < ParseDigits(lists[l][j], 0)

\* groups 1, 9 and 10 under one parent, met in the order 10, 9, 1
C13_Witness ==
    /\ hierPc = "grouped"
    /\ Len(data.structure_levels) > 0
    /\ Len(data.passages) = 3
    /\ \E l \in 1..Len(SiblingLists(hierarchy.main)) :
          /\ SiblingLists(hierarchy.main)[l] = << << "1" >>, << "9" >>, << "1", "0" >> >>
          /\ l > 1
    /\ Split(data.passages[1].ref, ".")[2] = << "1", "0" >>
    /\ Split(data.passages[2].ref, ".")[2] = << "9" >>

(***************************************************************************)
(* Validation                                                              *)
(***************************************************************************)
\* the files the loop got through without an exception
Validated(k) ==
    /\ k \in 1..fileIdx
    /\ files[k].kind = "json"
    /\ ~validateStructureConsistency(files[k]).threw

\* a ref with a wrong number of segments or a segment that is not a
\* non-negative integer
BadMainRef(ref, depth) ==
    LET segs == Split(ref, ".")
    IN  \/ Len(segs) # depth
        \/ \E i \in 1..Len(segs) :
              segs[i] = << >> \/ \E c \in 1..Len(segs[i]) : segs[i][c] \notin Digits

FirstChildDepthOf(levels) ==
    CHOOSE d \in 0..(MaxTreeDepth + 2) :
        \E branchy \in BOOLEAN : levels = StructureLevelsOf(d, branchy)

\* C14: validation reports an error for every main passage whose ref does not
\* have exactly as many segments as the structure tree is deep, or has a
\* segment that is not a non-negative integer; the file is never accepted.
C14_BadRefsReported ==
    \A k \in 1..Len(files) : Validated(k) =>
        \A i \in 1..Len(files[k].passages) :
            LET p == files[k].passages[i]
            IN  (p.passage_type = "main"
                 /\ BadMainRef(p.ref, FirstChildDepthOf(files[k].structure_levels))) =>
                    /\ ~allValid
                    /\ \E e \in 1..Len(errors) : errors[e].file = k
                    /\ Len(files[k].structure_levels) > 0 =>
                          \E e \in 1..Len(errors) :
                              /\ errors[e].file = k
                              /\ errors[e].ref = p.ref
                              /\ errors[e].kind \in {"levels", "non-numeric"}

\* a ref with one segment too few and a non-numeric segment, both reported
C14_Witness ==
    /\ valPc = "done"
    /\ Len(files) = 1
    /\ FirstChildDepthOf(files[1].structure_levels) = 3
    /\ ~allValid
    /\ \E e \in 1..Len(errors) :
          errors[e].kind = "levels" /\ errors[e].ref = << "1", ".", "1", "a" >>
    /\ \E e \in 1..Len(errors) :
          errors[e].kind = "non-numeric" /\ errors[e].ref = << "1", ".", "1", "a" >>

C17_BatchIsolation ==
    valPc \in {"done", "crashed"} => fileIdx = Len(files)

(***************************************************************************)
(* Read-only consumers                                                     *)
(***************************************************************************)
\* C16: a loaded document is never mutated by the resolver or by UI-layer
\* code: every Grantha object handed out by the loader or the cache still has
\* the contents it had when it was handed out.
C16_NeverMutated ==
    \A h \in 1..Len(handedOut) :
        Deref(handedOut[h].object, heap) = handedOut[h].contents

(***************************************************************************)
(* Hash navigation                                                         *)
(***************************************************************************)
\* the hash names an available grantha, an existing verse ref and a
\* commentary list
IsDeepLink(h) ==
    LET p == parseHash(h)
    IN  /\ p.ok
        /\ Includes(AvailableGranthas, p.granthaId)
        /\ isValidVerseRef(NavGrantha(p.granthaId), p.verseRef)
        /\ Len(p.commentaries) > 0

\* C18: when the app is opened with a URL hash that names an available
\* grantha, an existing verse ref and a commentary list, the hash is not
\* replaced by a default, and the panels show that grantha and verse with
\* those commentaries.
C18_DeepLinkOpens ==
    (IsDeepLink(openedHash) /\ homePc # "unmounted" /\ navigations = 0) =>
        LET p == parseHash(openedHash)
        IN  /\ locationHash = openedHash
            /\ PanelsShown =>
                  /\ state = StateOf(p.granthaId, p.verseRef, p.commentaries)
                  /\ currentGrantha = p.granthaId

\* the hash names an available grantha and a verse ref that is not in it
NamesMissingVerse(h) ==
    LET p == parseHash(h)
    IN  /\ p.ok
        /\ Includes(AvailableGranthas, p.granthaId)
        /\ ~ isValidVerseRef(NavGrantha(p.granthaId), p.verseRef)

\* C19: when the hash read at opening or on a hash change names an
\* available grantha and a verse ref that does not exist in it, the state and
\* the URL hash afterwards both name the first verse of that same grantha.
C19_FallsBackToFirstVerse ==
    (lastHandled.kind # "none" /\ NamesMissingVerse(lastHandled.hash)) =>
        LET p == parseHash(lastHandled.hash)
            firstRef == getFirstVerseRef(NavGrantha(p.granthaId))
            q == parseHash(lastHandled.afterHash)
        IN  /\ lastHandled.after.granthaId = p.granthaId
            /\ lastHandled.after.verseRef = firstRef
            /\ q.ok
            /\ q.granthaId = p.granthaId
            /\ q.verseRef = firstRef

\* the hash is malformed or names a grantha that is not available
MalformedOrUnavailable(h) ==
    LET p == parseHash(h)
    IN  ~ p.ok \/ ~ Includes(AvailableGranthas, p.granthaId)

\* C20: when the hash is changed to something malformed or naming an
\* unavailable grantha, handleHashChange leaves the hook's state unchanged
\* and leaves the URL at buildHash of that state, and the history has no
\* more entries after it than before.
C20_InvalidHashReverted ==
    (lastHandled.kind = "hashchange" /\ MalformedOrUnavailable(lastHandled.hash)) =>
        /\ lastHandled.after = lastHandled.before
        /\ lastHandled.afterHash = buildHash(lastHandled.before)
        /\ lastHandled.historyAfter = lastHandled.historyBefore

\* a malformed hash was typed while Kena with a commentary selection was shown
C20_Witness ==
    /\ lastHandled.kind = "hashchange"
    /\ ~ parseHash(lastHandled.hash).ok
    /\ lastHandled.before.granthaId = KenaId
    /\ Len(lastHandled.before.commentaries) > 0
    /\ state = lastHandled.before
    /\ locationHash = buildHash(state)

\* the hash names an available grantha and a verse ref that exists in it
NamesExistingVerse(h) ==
    LET p == parseHash(h)
    IN  /\ p.ok
        /\ Includes(AvailableGranthas, p.granthaId)
        /\ isValidVerseRef(NavGrantha(p.granthaId), p.verseRef)

\* C21: a hash change to an available grantha and an existing verse is not
\* discarded by handleHashChange, whether or not that grantha's data is
\* loaded: either the state moves to the requested grantha and verse, or the
\* hash stays in the URL until the data is there.
C21_HashChangeNotDiscarded ==
    (lastHandled.kind = "hashchange" /\ NamesExistingVerse(lastHandled.hash)) =>
        LET p == parseHash(lastHandled.hash)
        IN  \/ /\ lastHandled.after.granthaId = p.granthaId
               /\ lastHandled.after.verseRef = p.verseRef
            \/ lastHandled.afterHash = lastHandled.hash

\* nothing is under way: no hashchange event pending, no load in flight,
\* the loadGranthas effect has run to its end
Settled ==
    /\ homePc = "ready"
    /\ pendingHashChanges = 0
    /\ loadsInFlight = {}

CarriesCommentaryList(h) ==
    LET p == parseHash(h)
    IN  /\ p.ok
        /\ Includes(AvailableGranthas, p.granthaId)
        /\ Len(p.commentaries) > 0

\* C23: whenever the app was opened with, or navigated to, a hash that names
\* a grantha of the library and carries a commentary list, that list is the
\* state's selected commentaries and is what localStorage holds.
C23_HashCommentariesSelected ==
    (lastHandled.kind # "none" /\ CarriesCommentaryList(lastHandled.hash)) =>
        /\ lastHandled.after.commentaries = parseHash(lastHandled.hash).commentaries
        /\ selectedCommentaries = parseHash(lastHandled.hash).commentaries

\* the hash names the grantha, the verse and the commentaries of the state
HashNamesState(h, st) ==
    LET p == parseHash(h)
    IN  /\ p.ok
        /\ p.granthaId = st.granthaId
        /\ p.verseRef = st.verseRef
        /\ p.commentaries = st.commentaries

C24_SingleNetworkLoad ==
    \A l1, l2 \in loadsInFlight : l1.id = l2.id => l1 = l2

(***************************************************************************)
(* Lazy part loading                                                       *)
(***************************************************************************)
\* the three passage lists of a grantha
ThreeLists(g) == << g.prefatory_material, g.passages, g.concluding_material >>

\* position of a part id in the manifest
ManifestIndex(g, partId) == CHOOSE i \in 1..Len(g.parts) : g.parts[i] = partId

\* C26: after any sequence of loadPart calls, overlapping ones for the same
\* part included, no passage of a part occurs twice in a passage list of the
\* grantha.
C26_NoDuplicatePassages ==
    \A l \in 1..3 :
        LET list == ThreeLists(queryData)[l]
        IN  \A i, j \in 1..Len(list) : list[i] = list[j] => i = j

\* C27: after any sequence of part loads, the passages of the grantha are in
\* manifest order: a passage of an earlier part never follows one of a later
\* part.
C27_PassagesInManifestOrder ==
    \A i, j \in 1..Len(queryData.passages) :
        i < j => ManifestIndex(queryData, queryData.passages[i].part_id)
                     <= ManifestIndex(queryData, queryData.passages[j].part_id)

\* C28: isLoadingPart is true exactly while some started part load has not
\* finished.
C28_LoadingFlagTracksLoads ==
    isLoadingPart <=> inFlight # << >>

\* C29: once reaching the end of the text asks for no further part and no
\* load is in flight, which is where repeated scrolling ends, every part of
\* the manifest is loaded.
C29_ScrollingLoadsEveryPart ==
    (inFlight = << >> /\ NextPartAtEnd(queryData) = "") =>
        LoadedPartIds(queryData) = { queryData.parts[i] : i \in 1..Len(queryData.parts) }

\* the parts merged by a loadPart call that completed: the loaded ones other
\* than the part loadGrantha delivered
PartsLoadedLazily == LoadedPartIds(queryData) \ LoadedPartIds(handedOut[1].object)

\* C30: after loadPart(p) completed, every passage of part p is in the
\* grantha's lists and every commentary passage of part p is in the
\* commentary of its id, also when that commentary was not there before.
C30_PartFullyMerged ==
    \A p \in PartsLoadedLazily :
        LET partContent == PartContent(p)
            g == Deref(queryData, heap)
        IN  /\ RefsOf(partContent.passages) \subseteq RefsOf(g.passages)
            /\ RefsOf(partContent.prefatory_material) \subseteq RefsOf(g.prefatory_material)
            /\ RefsOf(partContent.concluding_material) \subseteq RefsOf(g.concluding_material)
            /\ \A c \in 1..Len(partContent.commentaries) :
                  \E e \in 1..Len(g.commentaries) :
                     /\ g.commentaries[e].commentary_id =
                           partContent.commentaries[c].commentary_id
                     /\ RefsOf(partContent.commentaries[c].passages)
                           \subseteq RefsOf(g.commentaries[e].passages)

====
